---- MODULE Spec2Model ----
(***************************************************************************)
(* GuildScheduler (src/src/index.js): the per-guild Durable Object that    *)
(* stores scheduled jobs under "jobs", the dedupe keys under "delivered",  *)
(* keeps one alarm, and delivers due jobs in alarm().                      *)
(*                                                                         *)
(* Every await of the source (storage get/put, transaction, setAlarm,      *)
(* the outbound fetch) is one step; a storage.transaction(...) closure is  *)
(* one atomic step.  Time is in milliseconds as in the source.             *)
(***************************************************************************)
EXTENDS Integers, Sequences, FiniteSets, TLC

VARIABLES
    jobs,        \* storage "jobs": sequence of job records
    delivered,   \* storage "delivered": function deliveryKey -> ms timestamp
    alarm,       \* the Durable Object alarm: <<>> (none) or <<ms>>
    now,         \* Date.now()
    nextId,      \* number of ids crypto.randomUUID() has handed out
    fpc,         \* request p: where it is suspended (the POST of the command in
                 \* flight, or an await of the fetch handler)
    floc,        \* request p: its locals (body / j / removed / next / the response)
    apc,         \* alarm(): where it is suspended
    aDelivered,  \* alarm(): local `delivered`
    aJob,        \* alarm(): local `job` of the current iteration, <<>> or <<job>>
    aNext,       \* alarm(): local `next` of the final resync, <<>> or <<ms>>
    aNowMs,      \* alarm(): local `nowMs` of the current iteration
    aTxnMs,      \* alarm(): the Date.now() that the closure of the removal
                 \* transaction reads, before its put is awaited
    retry,       \* the host owes a retry of a failed alarm() invocation
    faults,      \* number of non-ok messenger responses and abrupt stops so far
    sent,        \* history: deliveryKey -> number of ok sends
    failed,      \* history: deliveryKey -> number of non-ok sends
    skipped,     \* history: deliveryKey -> number of iterations that found it alreadyDelivered
    handled,     \* history: deliveryKey -> number of remove/reschedule writes
    unmarked,    \* history: deliveryKey -> number of ok sends whose invocation
                 \* stopped before the put of "delivered" completed
    invSent,     \* history: the ok sends of the current alarm() invocation, with
                 \* their time, the job read and the message posted
    cancelled,   \* history: ids removed by /cancel
    finished,    \* history: ids of non-repeating jobs removed by alarm()
    raced,       \* history: ids inserted by /schedule while a send was in flight
    purged,      \* history: deliveryKey -> number of purge writes
    thrown       \* history: deliveryKeys whose TypeError has ended an invocation

vars == <<jobs, delivered, alarm, now, nextId, fpc, floc,
          apc, aDelivered, aJob, aNext, aNowMs, aTxnMs, retry, faults,
          sent, failed, skipped, handled, unmarked, invSent, cancelled, finished,
          raced, purged, thrown>>

----------------------------------------------------------------------------
(* Bounds of the model *)

MaxJobs == 3
MaxAlarmJobs == 2
MaxConcJobs == 2
MaxLateJobs == 2
MaxTick == 5
MaxAlarmTick == 3
MaxConcTick == 2
MaxFaults == 2
MaxLiveJobs == 2
MaxLiveTick == 2
MaxEndJobs == 1
MaxEndTick == 5
MaxLegacyJobs == 2
MaxLegacyTick == 1
MaxCmdJobs == 1
MaxCmdTick == 2
MaxKindJobs == 2
MaxRemoveJobs == 2
MaxRemoveTick == 1
MaxDedupJobs == 1
MaxDedupTick == 1
MaxPruneKeys == 3
MaxPruneTick == 1
MaxListJobs == 17
MaxTermTick == 2

(* Program constants *)

DaySec == 86400
DayMs == 86400000
MsPerSec == 1000
DELIVERED_TTL_MS == 14 * 24 * 60 * 60 * 1000

HalfDayMs == DayMs \div 2
HalfDaySec == DaySec \div 2

Procs == {1, 2}
KnownTypes == {"ping-role", "ping-user", "channel-message"}

\* doAtTypeHandlers is an object literal: the names it inherits from
\* Object.prototype ("toString" stands for them) are properties of it too
InheritedNames == {"toString"}

\* a kind of older data that names no property at all
LegacyTypes == {"ping-everyone"}

\* doAtTypeHandlers: `x in doAtTypeHandlers` / `doAtTypeHandlers[x]` truthy
HasHandler(t) == t \in KnownTypes \cup InheritedNames

\* handler.innerContent is a function: only the three entries have one
HasInnerContent(t) == t \in KnownTypes

\* jobs.slice(0, 15) of /list
ListLimit == 15

\* handler.innerContent(j): a template string, as the sequence of its parts
innerContent(j) ==
    IF j.doAtType = "ping-role" THEN <<"<@&", j.doAtSubject, ">">>
    ELSE IF j.doAtType = "ping-user" THEN <<"<@", j.doAtSubject, ">">>
    ELSE <<j.doAtSubject>>

\* allowedMentions naming a role whatever the kind
allowedMentionsRole(j) == [roles |-> <<j.doAtSubject>>]

\* handler.allowedMentions(j)
allowedMentions(j) ==
    IF j.doAtType = "ping-role" THEN [roles |-> <<j.doAtSubject>>]
    ELSE IF j.doAtType = "ping-user" THEN [users |-> <<j.doAtSubject>>]
    ELSE [parse |-> <<>>]

\* handler.outerContent(j, innerContent)
outerContent(j, inner) ==
    IF j.doAtType = "ping-role"
    THEN inner \o <<" (scheduled role ping for <t:", j.scheduledUnix, ":F>)">>
    ELSE IF j.doAtType = "ping-user"
    THEN inner \o <<" (scheduled user ping for <t:", j.scheduledUnix, ":F>)">>
    ELSE inner

\* the request alarm() posts: the channel of the URL and the JSON body
Message(j) ==
    [channelId |-> j.channelId,
     content |-> outerContent(j, innerContent(j)),
     allowed_mentions |-> allowedMentions(j)]

\* the /schedule bodies runDeferredCommand sends at time nowMs: it answers
\* "That timestamp is in the past." itself when ts <= Math.floor(Date.now() / 1000)
Requests(times, nowMs) ==
    [guildId : {"g"}, channelId : {"c"}, doAtType : {"ping-role"},
     doAtSubject : {"12345"},
     scheduledUnix : {ts \in times : ~(ts <= nowMs \div MsPerSec)},
     repeatDaily : BOOLEAN, createdBy : {"u"}]

\* the same bodies for the schedule commands of the given kinds
RequestsOfKind(kinds, times, nowMs) ==
    [guildId : {"g"}, channelId : {"c"}, doAtType : kinds,
     doAtSubject : {"12345"},
     scheduledUnix : {ts \in times : ~(ts <= nowMs \div MsPerSec)},
     repeatDaily : BOOLEAN, createdBy : {"u"}]

\* the /cancel bodies: 0 stands for an empty job_id
CancelIds == 0 .. MaxJobs

----------------------------------------------------------------------------
(* Pure helpers *)

\* jobs.push(j) into an already stably sorted prefix: after every element
\* whose runAtMs is <= j.runAtMs (Array.prototype.sort is stable)
RECURSIVE InsertByRunAt(_, _)
InsertByRunAt(s, j) ==
    IF s = <<>> THEN <<j>>
    ELSE IF Head(s).runAtMs <= j.runAtMs
         THEN <<Head(s)>> \o InsertByRunAt(Tail(s), j)
         ELSE <<j>> \o s

\* arr.sort((a, b) => a.runAtMs - b.runAtMs)
RECURSIVE SortJobs(_)
SortJobs(s) ==
    IF s = <<>> THEN <<>>
    ELSE InsertByRunAt(SortJobs(SubSeq(s, 1, Len(s) - 1)), s[Len(s)])

\* FindById without the miss: -1 handed to splice(-1, 1) names the last element
FindByIdNoMiss(s, id, i) ==
    IF \E k \in i .. Len(s) : s[k].id = id
    THEN CHOOSE k \in i .. Len(s) : s[k].id = id /\ \A m \in i .. (k - 1) : s[m].id # id
    ELSE Len(s)

\* arr.findIndex(pred) for pred = (j.id === id): 0 stands for -1
RECURSIVE FindById(_, _, _)
FindById(s, id, i) ==
    IF i > Len(s) THEN 0
    ELSE IF s[i].id = id THEN i
    ELSE FindById(s, id, i + 1)

\* FindOccurrence without the miss: -1 handed to splice(-1, 1) names the last element
FindOccurrenceNoMiss(s, job, i) ==
    IF \E k \in i .. Len(s) : s[k].id = job.id /\ s[k].scheduledUnix = job.scheduledUnix
    THEN CHOOSE k \in i .. Len(s) :
            /\ s[k].id = job.id /\ s[k].scheduledUnix = job.scheduledUnix
            /\ \A m \in i .. (k - 1) :
                  ~(s[m].id = job.id /\ s[m].scheduledUnix = job.scheduledUnix)
    ELSE Len(s)

\* arr.findIndex(j => j.id === job.id && j.scheduledUnix === job.scheduledUnix)
RECURSIVE FindOccurrence(_, _, _)
FindOccurrence(s, job, i) ==
    IF i > Len(s) THEN 0
    ELSE IF s[i].id = job.id /\ s[i].scheduledUnix = job.scheduledUnix THEN i
    ELSE FindOccurrence(s, job, i + 1)

\* arr.splice(idx, 1)
Splice(s, idx) == SubSeq(s, 1, idx - 1) \o SubSeq(s, idx + 1, Len(s))

\* deliveryKey(job): `${job.id}:${job.scheduledUnix}`
deliveryKey(job) == <<job.id, job.scheduledUnix>>

\* a value of the "delivered" object: the number n is <<n>>, a value of
\* another type is <<>>; typeof v === "number"
IsNumber(v) == v # <<>>

\* pruneDelivered deleting the entry that is exactly DELIVERED_TTL_MS old too
pruneDeliveredInclusive(d, nowMs) ==
    [k \in {x \in DOMAIN d :
               ~(~IsNumber(d[x]) \/ d[x][1] <= nowMs - DELIVERED_TTL_MS)} |-> d[k]]

\* pruneDelivered(delivered, nowMs)
pruneDelivered(d, nowMs) ==
    [k \in {x \in DOMAIN d :
               ~(~IsNumber(d[x]) \/ d[x][1] < nowMs - DELIVERED_TTL_MS)} |-> d[k]]

\* delivered[key] = ts
PutKey(d, key, ts) ==
    [k \in DOMAIN d \cup {key} |-> IF k = key THEN ts ELSE d[k]]

\* history counters
Count(h, key) == IF key \in DOMAIN h THEN h[key] ELSE 0
Bump(h, key) == PutKey(h, key, Count(h, key) + 1)

\* jobsNow[0] of a sorted read, as the next alarm time
NextOf(s) == IF s = <<>> THEN <<>> ELSE <<SortJobs(s)[1].runAtMs>>

\* CatchUp with `nextMs < Date.now()`: a next time equal to now is kept
RECURSIVE CatchUpNonStrict(_, _, _)
CatchUpNonStrict(nextUnix, nextMs, nowMs) ==
    IF nextMs < nowMs
    THEN CatchUpNonStrict(nextUnix + DaySec, nextMs + DayMs, nowMs)
    ELSE [scheduledUnix |-> nextUnix, runAtMs |-> nextMs]

\* CatchUp whose loop advances nextMs only
RECURSIVE CatchUpMsOnly(_, _, _)
CatchUpMsOnly(nextUnix, nextMs, nowMs) ==
    IF nextMs <= nowMs
    THEN CatchUpMsOnly(nextUnix, nextMs + DayMs, nowMs)
    ELSE [scheduledUnix |-> nextUnix, runAtMs |-> nextMs]

\* the catch-up loop: while (nextMs <= Date.now()) { nextUnix += 86400; nextMs += 86_400_000 }
RECURSIVE CatchUp(_, _, _)
CatchUp(nextUnix, nextMs, nowMs) ==
    IF nextMs <= nowMs
    THEN CatchUp(nextUnix + DaySec, nextMs + DayMs, nowMs)
    ELSE [scheduledUnix |-> nextUnix, runAtMs |-> nextMs]

NoLoc == [kind |-> "none"]

----------------------------------------------------------------------------
Init ==
    /\ jobs = <<>>
    /\ delivered = <<>>
    /\ alarm = <<>>
    /\ now = 0
    /\ nextId = 0
    /\ fpc = [p \in Procs |-> "idle"]
    /\ floc = [p \in Procs |-> NoLoc]
    /\ apc = "idle"
    /\ aDelivered = <<>>
    /\ aJob = <<>>
    /\ aNext = <<>>
    /\ aNowMs = 0
    /\ aTxnMs = 0
    /\ retry = FALSE
    /\ faults = 0
    /\ sent = <<>>
    /\ handled = <<>>
    /\ unmarked = <<>>
    /\ failed = <<>>
    /\ skipped = <<>>
    /\ invSent = <<>>
    /\ cancelled = {}
    /\ finished = {}
    /\ raced = {}
    /\ purged = <<>>
    /\ thrown = {}

\* A tenant that has been in use for a while: the time is LegacyNow,
\* "jobs" holds records written by earlier versions, due now or in half a
\* day, of a known kind, of a kind that names no property, or of a kind that names an
\* inherited one; "delivered" holds the keys of three deliveries of jobs long
\* gone: one older than the retention, one exactly as old, one of yesterday
LegacyNow == 15 * DayMs

LegacyRecord(id, kind, repeat, halfDays) ==
    [id |-> id, guildId |-> "g", channelId |-> "c", doAtType |-> kind,
     doAtSubject |-> "12345",
     scheduledUnix |-> LegacyNow \div MsPerSec + halfDays * HalfDaySec,
     runAtMs |-> LegacyNow + halfDays * HalfDayMs,
     repeatDaily |-> repeat, createdBy |-> "u"]

LegacyStores ==
    {SortJobs([i \in DOMAIN c |-> LegacyRecord(i, c[i][1], c[i][2], c[i][3])]) :
        c \in UNION {[1 .. n -> ({"ping-role"} \cup LegacyTypes \cup InheritedNames)
                                   \X BOOLEAN \X {0, 1}] :
                        n \in 1 .. MaxLegacyJobs}}

LegacyDelivered ==
    [k \in {<<0, 1>>, <<0, 2>>, <<0, 3>>} |->
        IF k[2] = 1 THEN <<LegacyNow - DELIVERED_TTL_MS - 1>>
        ELSE IF k[2] = 2 THEN <<LegacyNow - DELIVERED_TTL_MS>>
        ELSE <<LegacyNow - DayMs>>]

InitLegacy ==
    /\ jobs \in LegacyStores
    /\ delivered = LegacyDelivered
    /\ alarm = NextOf(jobs)
    /\ now = LegacyNow
    /\ nextId = Len(jobs)
    /\ fpc = [p \in Procs |-> "idle"]
    /\ floc = [p \in Procs |-> NoLoc]
    /\ apc = "idle"
    /\ aDelivered = <<>>
    /\ aJob = <<>>
    /\ aNext = <<>>
    /\ aNowMs = 0
    /\ aTxnMs = 0
    /\ retry = FALSE
    /\ faults = 0
    /\ sent = <<>>
    /\ handled = <<>>
    /\ unmarked = <<>>
    /\ failed = <<>>
    /\ skipped = <<>>
    /\ invSent = <<>>
    /\ cancelled = {}
    /\ finished = {}
    /\ raced = {}
    /\ purged = <<>>
    /\ thrown = {}

\* the tenant with one stored job and a "delivered" object of older data:
\* each of its values is a time older than the retention by a millisecond,
\* exactly as old, of yesterday, or not a number
PruneValues ==
    {<<LegacyNow - DELIVERED_TTL_MS - 1>>, <<LegacyNow - DELIVERED_TTL_MS>>,
     <<LegacyNow - DayMs>>, <<>>}

PruneMaps == [{<<0, n>> : n \in 1 .. MaxPruneKeys} -> PruneValues]

InitPrune ==
    /\ jobs \in {s \in LegacyStores : Len(s) = 1}
    /\ delivered \in PruneMaps
    /\ alarm = NextOf(jobs)
    /\ now = LegacyNow
    /\ nextId = Len(jobs)
    /\ fpc = [p \in Procs |-> "idle"]
    /\ floc = [p \in Procs |-> NoLoc]
    /\ apc = "idle"
    /\ aDelivered = <<>>
    /\ aJob = <<>>
    /\ aNext = <<>>
    /\ aNowMs = 0
    /\ aTxnMs = 0
    /\ retry = FALSE
    /\ faults = 0
    /\ sent = <<>>
    /\ handled = <<>>
    /\ unmarked = <<>>
    /\ failed = <<>>
    /\ skipped = <<>>
    /\ invSent = <<>>
    /\ cancelled = {}
    /\ finished = {}
    /\ raced = {}
    /\ purged = <<>>
    /\ thrown = {}

\* the tenant with up to MaxListJobs stored jobs, written in ascending
\* order of runAtMs, in descending order, or in an order with ties that is
\* neither, as older data may be
ListTime(pattern, n, i) ==
    IF pattern = "asc" THEN i
    ELSE IF pattern = "desc" THEN n + 1 - i
    ELSE ((i * 7) % 5) + 1

ListRecord(id, halfDays) ==
    [id |-> id, guildId |-> "g", channelId |-> "c", doAtType |-> "ping-role",
     doAtSubject |-> "12345",
     scheduledUnix |-> halfDays * HalfDaySec,
     runAtMs |-> halfDays * HalfDayMs,
     repeatDaily |-> FALSE, createdBy |-> "u"]

ListStores ==
    {[i \in 1 .. n |-> ListRecord(i, ListTime(pattern, n, i))] :
        n \in 0 .. MaxListJobs, pattern \in {"asc", "desc", "mix"}}

InitList ==
    /\ jobs \in ListStores
    /\ delivered = LegacyDelivered
    /\ alarm = NextOf(jobs)
    /\ now = 0
    /\ nextId = Len(jobs)
    /\ fpc = [p \in Procs |-> "idle"]
    /\ floc = [p \in Procs |-> NoLoc]
    /\ apc = "idle"
    /\ aDelivered = <<>>
    /\ aJob = <<>>
    /\ aNext = <<>>
    /\ aNowMs = 0
    /\ aTxnMs = 0
    /\ retry = FALSE
    /\ faults = 0
    /\ sent = <<>>
    /\ handled = <<>>
    /\ unmarked = <<>>
    /\ failed = <<>>
    /\ skipped = <<>>
    /\ invSent = <<>>
    /\ cancelled = {}
    /\ finished = {}
    /\ raced = {}
    /\ purged = <<>>
    /\ thrown = {}

\* what the closure of the removal transaction can be given: the array it
\* reads from "jobs", of none to MaxRemoveJobs records; the occurrence that
\* alarm() holds, with a stored id or another one; and the time it reads.
\* The array may hold the held occurrence, a record of that id at another
\* scheduledUnix, or no record of that id
RemoveRecord(id, repeat, halfDays) ==
    [id |-> id, guildId |-> "g", channelId |-> "c", doAtType |-> "ping-role",
     doAtSubject |-> "12345",
     scheduledUnix |-> halfDays * HalfDaySec,
     runAtMs |-> halfDays * HalfDayMs,
     repeatDaily |-> repeat, createdBy |-> "u"]

RemoveStores ==
    {SortJobs([i \in DOMAIN c |-> RemoveRecord(i, c[i][1], c[i][2])]) :
        c \in UNION {[1 .. n -> BOOLEAN \X (1 .. 4)] : n \in 0 .. MaxRemoveJobs}}

HeldJobs ==
    {RemoveRecord(id, repeat, halfDays) :
        id \in 1 .. MaxRemoveJobs + 1, repeat \in BOOLEAN, halfDays \in 1 .. 2}

RemoveTimes == {DayMs + k * HalfDayMs : k \in 0 .. MaxRemoveTick}

----------------------------------------------------------------------------
(* fetch(): POST /schedule *)

\* NewJob keeping runAtMs in seconds
NewJobSeconds(req, id) ==
    [id |-> id,
     guildId |-> req.guildId,
     channelId |-> req.channelId,
     doAtType |-> req.doAtType,
     doAtSubject |-> req.doAtSubject,
     scheduledUnix |-> req.scheduledUnix,
     runAtMs |-> req.scheduledUnix,
     repeatDaily |-> req.repeatDaily,
     createdBy |-> req.createdBy]

\* the record `j` built from the request body and a fresh id
NewJob(req, id) ==
    [id |-> id,
     guildId |-> req.guildId,
     channelId |-> req.channelId,
     doAtType |-> req.doAtType,
     doAtSubject |-> req.doAtSubject,
     scheduledUnix |-> req.scheduledUnix,
     runAtMs |-> req.scheduledUnix * MsPerSec,
     repeatDaily |-> req.repeatDaily,
     createdBy |-> req.createdBy]

\* ScheduleWrite putting back only the new job, as a blind put would
ScheduleWriteOverwrite(cur, j) == SortJobs(<<j>>)

\* ScheduleWrite pushing the new job without the sort
ScheduleWriteAppend(cur, j) == Append(cur, j)

\* the closure of the /schedule transaction: what it writes to "jobs"
ScheduleWrite(cur, j) == SortJobs(Append(cur, j))

\* the bodies in flight that the handler will store, and the bound a run
\* puts on the jobs created: a body is posted only while an id is left for it
Posted == {q \in Procs : fpc[q] = "sched_post" /\ HasHandler(floc[q].body.doAtType)}
Admitted(max) == nextId' + Cardinality(Posted') <= max

\* runDeferredCommand has checked the timestamp against its clock and awaits
\* stub.fetch("https://do/schedule"): the body is on its way to the object
SchedulePost(p, req) ==
    /\ fpc[p] = "idle"
    /\ floc' = [floc EXCEPT ![p] = [kind |-> "post", body |-> req]]
    /\ fpc' = [fpc EXCEPT ![p] = "sched_post"]
    /\ UNCHANGED <<jobs, delivered, alarm, now, nextId, apc, aDelivered, aJob,
                   aNext, aNowMs, aTxnMs, retry, faults, sent, failed, skipped,
                   handled, unmarked, invSent, cancelled, finished, raced,
                   purged, thrown>>

\* the handler of the body that arrived: request.json(), the kind check,
\* randomUUID and the transaction; the handler does not look at the clock
ScheduleTxn(p) ==
    LET req == floc[p].body IN
    /\ fpc[p] = "sched_post"
    /\ IF ~HasHandler(req.doAtType)
       THEN /\ floc' = [floc EXCEPT ![p] = [kind |-> "response", content |-> "Invalid target type."]]
            /\ fpc' = [fpc EXCEPT ![p] = "done"]
            /\ UNCHANGED <<jobs, nextId>>
       ELSE /\ nextId' = nextId + 1
            /\ jobs' = ScheduleWrite(jobs, NewJob(req, nextId + 1))
            /\ floc' = [floc EXCEPT ![p] = [kind |-> "schedule", j |-> NewJob(req, nextId + 1)]]
            /\ fpc' = [fpc EXCEPT ![p] = "sched_get"]
    /\ raced' = IF HasHandler(req.doAtType) /\ apc = "send"
                THEN raced \cup {nextId + 1}
                ELSE raced
    /\ UNCHANGED <<delivered, alarm, now, apc, aDelivered, aJob, aNext, aNowMs, aTxnMs,
                   retry, faults, sent, failed, skipped, handled, unmarked,
                   invSent, cancelled, finished, purged, thrown>>

\* ScheduleGet taking the alarm time from the job just built, not from storage
ScheduleGetFromJob(p) ==
    /\ fpc[p] = "sched_get"
    /\ floc' = [floc EXCEPT ![p] =
                  [kind |-> "schedule", j |-> floc[p].j, next |-> <<floc[p].j.runAtMs>>]]
    /\ fpc' = [fpc EXCEPT ![p] = "sched_set"]
    /\ UNCHANGED <<jobs, delivered, alarm, now, nextId, apc, aDelivered, aJob,
                   aNext, aNowMs, aTxnMs, retry, faults, sent, failed, skipped,
                   handled, unmarked, invSent, cancelled, finished, raced,
                   purged, thrown>>

\* const jobsNow = await storage.get("jobs"); sort; next = jobsNow[0]
ScheduleGet(p) ==
    /\ fpc[p] = "sched_get"
    /\ floc' = [floc EXCEPT ![p] = [kind |-> "schedule", j |-> floc[p].j, next |-> NextOf(jobs)]]
    /\ fpc' = [fpc EXCEPT ![p] = "sched_set"]
    /\ UNCHANGED <<jobs, delivered, alarm, now, nextId, apc, aDelivered, aJob,
                   aNext, aNowMs, aTxnMs, retry, faults, sent, failed, skipped,
                   handled, unmarked, invSent, cancelled, finished, raced,
                   purged, thrown>>

\* setAlarm(next.runAtMs) or deleteAlarm(), then the response
ScheduleSetAlarm(p) ==
    /\ fpc[p] = "sched_set"
    /\ alarm' = floc[p].next
    /\ floc' = [floc EXCEPT ![p] =
                  [kind |-> "response", content |-> "Scheduled job", job |-> floc[p].j]]
    /\ fpc' = [fpc EXCEPT ![p] = "done"]
    /\ UNCHANGED <<jobs, delivered, now, nextId, apc, aDelivered, aJob, aNext,
                   aNowMs, aTxnMs, retry, faults, sent, failed, skipped,
                   handled, unmarked, invSent, cancelled, finished, raced,
                   purged, thrown>>

----------------------------------------------------------------------------
(* fetch(): POST /cancel *)

\* the closure of the /cancel transaction when the id is found
CancelWrite(cur, idx) == SortJobs(Splice(cur, idx))

\* request.json(), the empty-id check and the transaction; a miss returns
CancelTxn(p, jobId) ==
    /\ fpc[p] = "idle"
    /\ IF jobId = 0
       THEN /\ floc' = [floc EXCEPT ![p] = [kind |-> "response", content |-> "Provide a valid job_id."]]
            /\ fpc' = [fpc EXCEPT ![p] = "done"]
            /\ UNCHANGED <<jobs, cancelled>>
       ELSE IF FindById(jobs, jobId, 1) = 0
       THEN /\ floc' = [floc EXCEPT ![p] =
                          [kind |-> "response", content |-> "No job found", jobId |-> jobId]]
            /\ fpc' = [fpc EXCEPT ![p] = "done"]
            /\ UNCHANGED <<jobs, cancelled>>
       ELSE /\ jobs' = CancelWrite(jobs, FindById(jobs, jobId, 1))
            /\ floc' = [floc EXCEPT ![p] =
                          [kind |-> "cancel", jobId |-> jobId,
                           removed |-> jobs[FindById(jobs, jobId, 1)]]]
            /\ fpc' = [fpc EXCEPT ![p] = "cancel_get"]
            /\ cancelled' = cancelled \cup {jobs[FindById(jobs, jobId, 1)].id}
    /\ UNCHANGED <<delivered, alarm, now, nextId, apc, aDelivered, aJob, aNext,
                   aNowMs, aTxnMs, retry, faults, sent, failed, skipped,
                   handled, unmarked, invSent, finished, raced, purged, thrown>>

\* const jobsNow = await storage.get("jobs"); sort; next = jobsNow[0]
CancelGet(p) ==
    /\ fpc[p] = "cancel_get"
    /\ floc' = [floc EXCEPT ![p] =
                  [kind |-> "cancel", jobId |-> floc[p].jobId,
                   removed |-> floc[p].removed, next |-> NextOf(jobs)]]
    /\ fpc' = [fpc EXCEPT ![p] = "cancel_set"]
    /\ UNCHANGED <<jobs, delivered, alarm, now, nextId, apc, aDelivered, aJob,
                   aNext, aNowMs, aTxnMs, retry, faults, sent, failed, skipped,
                   handled, unmarked, invSent, cancelled, finished, raced,
                   purged, thrown>>

\* setAlarm(next.runAtMs) or deleteAlarm(), then the response
CancelSetAlarm(p) ==
    /\ fpc[p] = "cancel_set"
    /\ alarm' = floc[p].next
    /\ floc' = [floc EXCEPT ![p] =
                  [kind |-> "response", content |-> "Cancelled job",
                   jobId |-> floc[p].jobId, removed |-> floc[p].removed]]
    /\ fpc' = [fpc EXCEPT ![p] = "done"]
    /\ UNCHANGED <<jobs, delivered, now, nextId, apc, aDelivered, aJob, aNext,
                   aNowMs, aTxnMs, retry, faults, sent, failed, skipped,
                   handled, unmarked, invSent, cancelled, finished, raced,
                   purged, thrown>>

\* return jsonResponse(...): the caller takes the response
Respond(p) ==
    /\ fpc[p] = "done"
    /\ floc' = [floc EXCEPT ![p] = NoLoc]
    /\ fpc' = [fpc EXCEPT ![p] = "idle"]
    /\ UNCHANGED <<jobs, delivered, alarm, now, nextId, apc, aDelivered, aJob,
                   aNext, aNowMs, aTxnMs, retry, faults, sent, failed, skipped,
                   handled, unmarked, invSent, cancelled, finished, raced,
                   purged, thrown>>

----------------------------------------------------------------------------
(* fetch(): /list *)

\* Shown without the slice
ShownAll(s) == s

\* jobs.slice(0, 15)
Shown(s) == SubSeq(s, 1, IF Len(s) < ListLimit THEN Len(s) ELSE ListLimit)

\* the whole handler: storage.get("jobs"), sort, and the response; the map
\* over the shown jobs throws a TypeError at a kind without innerContent,
\* which the caller of fetch() receives in place of a response
List(p) ==
    /\ fpc[p] = "idle"
    /\ floc' = [floc EXCEPT ![p] =
                  IF jobs = <<>>
                  THEN [kind |-> "response", content |-> "No scheduled jobs."]
                  ELSE IF \E i \in 1 .. Len(Shown(SortJobs(jobs))) :
                             ~HasInnerContent(Shown(SortJobs(jobs))[i].doAtType)
                  THEN [kind |-> "response", content |-> "TypeError"]
                  ELSE [kind |-> "response", content |-> "Scheduled jobs",
                        total |-> Len(jobs), shown |-> Shown(SortJobs(jobs))]]
    /\ fpc' = [fpc EXCEPT ![p] = "done"]
    /\ UNCHANGED <<jobs, delivered, alarm, now, nextId, apc, aDelivered, aJob,
                   aNext, aNowMs, aTxnMs, retry, faults, sent, failed, skipped,
                   handled, unmarked, invSent, cancelled, finished, raced,
                   purged, thrown>>

----------------------------------------------------------------------------
(* runDeferredCommand: the schedule commands *)

\* a text is the sequence of its characters
Digits == {"0", "1", "2", "3", "4", "5", "6", "7", "8", "9"}
Repeat(c, n) == [k \in 1 .. n |-> c]

\* the validators return null when the subject passes
Null == "null"

\* /^\d{5,30}$/.test(subject)
IsId(subject) ==
    /\ Len(subject) >= 5
    /\ Len(subject) <= 30
    /\ \A k \in DOMAIN subject : subject[k] \in Digits

roleIdValidator(subject) == IF ~IsId(subject) THEN "Invalid role." ELSE Null

userIdValidator(subject) == IF ~IsId(subject) THEN "Invalid user." ELSE Null

MessageLimit == 2000

messageValidator(subject) ==
    IF Len(subject) = 0 THEN "Message cannot be empty."
    ELSE IF Len(subject) > MessageLimit THEN "Message too long (max 2000 chars)."
    ELSE Null

\* the commands that have a `schedule` entry
ScheduleCommands == {"pingroleat", "pingmeat", "sayat"}

\* command.schedule.doAtType
doAtTypeOf(name) ==
    IF name = "pingroleat" THEN "ping-role"
    ELSE IF name = "pingmeat" THEN "ping-user"
    ELSE "channel-message"

\* command.schedule.validator?.(doAtSubject)
validator(name, subject) ==
    IF name = "pingroleat" THEN roleIdValidator(subject)
    ELSE IF name = "pingmeat" THEN userIdValidator(subject)
    ELSE messageValidator(subject)

\* Number(getOption(interaction, "timestamp")) is the fraction num / den;
\* den = 0 is NaN, which Number gives when the option is missing
IsFinite(x) == x.den # 0
IsInteger(x) == x.den # 0 /\ x.num % x.den = 0

\* ts > 10_000_000_000, told from the thousands of ts and the rest
MsThousands == 10000000
IsMs(ts) ==
    \/ ts \div MsPerSec > MsThousands
    \/ ts \div MsPerSec = MsThousands /\ ts % MsPerSec > 0

\* if (ts > 10_000_000_000) ts = Math.floor(ts / 1000)
ToSeconds(ts) == IF IsMs(ts) THEN ts \div MsPerSec ELSE ts

\* InPast letting the current second through
InPastStrict(ts, nowSec) == ts < nowSec

\* ts <= now
InPast(ts, nowSec) == ts <= nowSec

\* Boolean(getOption(interaction, "repeat_daily") ?? false): the option is
\* <<>> when missing
RepeatDailyOf(opt) == opt # <<>> /\ opt[1]

\* the interactions of the schedule commands, inside a guild and, for one
\* of each command, outside: the
\* subject option missing, too short, an id, not all digits, too long for an id,
\* as long as a message may be and one character longer, the timestamp
\* a whole number of seconds, a fraction or missing
Subjects ==
    {<<>>, <<"1", "2", "3", "4">>, <<"1", "2", "3", "4", "5">>,
     <<"1", "2", "a", "4", "5">>, Repeat("7", 31),
     Repeat("a", MessageLimit), Repeat("a", MessageLimit + 1)}

Timestamps ==
    {[num |-> 0, den |-> 0], [num |-> 2 * DaySec + 1, den |-> 2],
     [num |-> 0, den |-> 1], [num |-> HalfDaySec, den |-> 1],
     [num |-> DaySec, den |-> 1]}

Interactions ==
    [guild_id : {<<"g">>}, channel_id : {"c"}, user : {"u"},
     name : ScheduleCommands, subject : Subjects, timestamp : Timestamps,
     repeat_daily : {<<>>, <<TRUE>>}]
    \cup
    [guild_id : {<<>>}, channel_id : {"c"}, user : {"u"},
     name : ScheduleCommands, subject : {<<"1", "2", "3", "4", "5">>},
     timestamp : {[num |-> DaySec, den |-> 1]}, repeat_daily : {<<>>}]

\* what runDeferredCommand answers by itself, or Null when it goes on to
\* the scheduler; allowed is the outcome of checkGuildPermissions; the
\* message about the timestamp is written without its two backquotes
CommandError(i, allowed, nowMs) ==
    IF i.guild_id = <<>> THEN "Use this command inside a server."
    ELSE IF ~allowed THEN "Only moderators or the server owner can use this command."
    ELSE IF validator(i.name, i.subject) # Null THEN validator(i.name, i.subject)
    ELSE IF ~IsFinite(i.timestamp) \/ ~IsInteger(i.timestamp)
    THEN "timestamp must be an integer Unix timestamp in seconds."
    ELSE IF InPast(ToSeconds(i.timestamp.num \div i.timestamp.den), nowMs \div MsPerSec)
    THEN "That timestamp is in the past."
    ELSE Null

\* the body of the POST to /schedule
Body(i) ==
    [guildId |-> i.guild_id[1],
     channelId |-> i.channel_id,
     doAtType |-> doAtTypeOf(i.name),
     doAtSubject |-> i.subject,
     scheduledUnix |-> ToSeconds(i.timestamp.num \div i.timestamp.den),
     repeatDaily |-> RepeatDailyOf(i.repeat_daily),
     createdBy |-> i.user]

\* runDeferredCommand for a schedule command: it answers the error itself,
\* or posts the body to /schedule
RunSchedule(p, i, allowed) ==
    \/ /\ CommandError(i, allowed, now) # Null
       /\ fpc[p] = "idle"
       /\ floc' = [floc EXCEPT ![p] =
                     [kind |-> "response", content |-> CommandError(i, allowed, now)]]
       /\ fpc' = [fpc EXCEPT ![p] = "done"]
       /\ UNCHANGED <<jobs, delivered, alarm, now, nextId, apc, aDelivered, aJob,
                      aNext, aNowMs, aTxnMs, retry, faults, sent, failed, skipped,
                      handled, unmarked, invSent, cancelled, finished, raced,
                      purged, thrown>>
    \/ /\ CommandError(i, allowed, now) = Null
       /\ SchedulePost(p, Body(i))

----------------------------------------------------------------------------
(* The clock *)

Tick ==
    /\ now' = now + HalfDayMs
    /\ UNCHANGED <<jobs, delivered, alarm, nextId, fpc, floc, apc, aDelivered,
                   aJob, aNext, aNowMs, aTxnMs, retry, faults, sent, failed,
                   skipped, handled, unmarked, invSent, cancelled, finished,
                   raced, purged, thrown>>

----------------------------------------------------------------------------
(* alarm() *)

\* the host invokes alarm(): the alarm time has come, or a failed
\* invocation is retried; the alarm is consumed by the invocation
AlarmFire ==
    /\ apc = "idle"
    /\ (retry \/ (alarm # <<>> /\ alarm[1] <= now))
    /\ alarm' = <<>>
    /\ retry' = FALSE
    /\ invSent' = <<>>
    /\ apc' = "load"
    /\ UNCHANGED <<jobs, delivered, now, nextId, fpc, floc, aDelivered, aJob,
                   aNext, aNowMs, aTxnMs, faults, sent, failed, skipped,
                   handled, unmarked, cancelled, finished, raced, purged,
                   thrown>>

\* let delivered = await storage.get("delivered"); pruneDelivered(delivered,
\* Date.now()); then the loop is entered: nowMs = Date.now(), and alarm()
\* waits for storage.get("jobs")
AlarmLoad ==
    /\ apc = "load"
    /\ aDelivered' = pruneDelivered(delivered, now)
    /\ aNowMs' = now
    /\ apc' = "loop"
    /\ UNCHANGED <<jobs, delivered, alarm, now, nextId, fpc, floc, aJob, aNext,
                   aTxnMs, retry, faults, sent, failed, skipped, handled,
                   unmarked, invSent, cancelled, finished, raced, purged,
                   thrown>>

\* IsDue taking the head of a non-empty read as due whatever its time
IsDueAlways(s, nowMs) == s # <<>>

\* the head of the sorted read is due at nowMs
IsDue(s, nowMs) == s # <<>> /\ ~(SortJobs(s)[1].runAtMs > nowMs)

\* AfterRead without the dedupe check: every due job with a handler is sent
AfterReadNoDedup(job, d) ==
    IF ~HasHandler(job.doAtType) THEN "purge"
    ELSE IF ~HasInnerContent(job.doAtType) THEN "throw"
    ELSE "send"

\* AfterRead with `if (alreadyDelivered) continue;`: a delivered job is left in place
AfterReadSkipAll(job, d) ==
    IF deliveryKey(job) \in DOMAIN d THEN "loop"
    ELSE IF ~HasHandler(job.doAtType) THEN "purge"
    ELSE IF ~HasInnerContent(job.doAtType) THEN "throw"
    ELSE "send"

\* where one iteration goes after reading `job`; handler.innerContent(job)
\* of a handler without that method is a TypeError
AfterRead(job, d) ==
    IF deliveryKey(job) \in DOMAIN d THEN "txn_get"
    ELSE IF ~HasHandler(job.doAtType) THEN "purge"
    ELSE IF ~HasInnerContent(job.doAtType) THEN "throw"
    ELSE "send"

\* the job read at the loop head is due, not delivered, and its handler has
\* no innerContent: handler.innerContent(job) is a TypeError
Throws == IsDue(jobs, aNowMs) /\ AfterRead(SortJobs(jobs)[1], aDelivered) = "throw"

\* the read of the loop head completes: jobsNow = await storage.get("jobs");
\* sort; job = jobsNow[0]; due-ness is decided with the nowMs taken before
\* the read; alreadyDelivered; handler lookup. For a job already delivered
\* the removal transaction starts and its closure awaits txn.get("jobs").
\* When nothing is due the loop
\* is left: pruneDelivered(delivered, Date.now()), and alarm() waits for the
\* last put of "delivered"
AlarmLoop ==
    /\ apc = "loop"
    /\ ~Throws
    /\ IF IsDue(jobs, aNowMs)
       THEN /\ aJob' = <<SortJobs(jobs)[1]>>
            /\ apc' = AfterRead(SortJobs(jobs)[1], aDelivered)
            /\ skipped' = IF deliveryKey(SortJobs(jobs)[1]) \in DOMAIN aDelivered
                          THEN Bump(skipped, deliveryKey(SortJobs(jobs)[1]))
                          ELSE skipped
            /\ UNCHANGED <<aDelivered, aTxnMs>>
       ELSE /\ aJob' = <<>>
            /\ apc' = "final_put"
            /\ aDelivered' = pruneDelivered(aDelivered, now)
            /\ UNCHANGED <<skipped, aTxnMs>>
    /\ UNCHANGED <<jobs, delivered, alarm, now, nextId, fpc, floc, aNext,
                   aNowMs, retry, faults, sent, failed, handled, unmarked,
                   invSent, cancelled, finished, raced, purged, thrown>>

\* the closure of the purge transaction: what "jobs" holds after it
PurgeWrite(cur, job) ==
    IF FindOccurrence(cur, job, 1) = 0 THEN cur
    ELSE SortJobs(Splice(cur, FindOccurrence(cur, job, 1)))

\* AlarmPurge recording the purged occurrence as delivered
AlarmPurgeMarks ==
    /\ apc = "purge"
    /\ jobs' = PurgeWrite(jobs, aJob[1])
    /\ purged' = IF FindOccurrence(jobs, aJob[1], 1) = 0 THEN purged
                 ELSE Bump(purged, deliveryKey(aJob[1]))
    /\ aDelivered' = pruneDelivered(PutKey(aDelivered, deliveryKey(aJob[1]), <<now>>), now)
    /\ delivered' = pruneDelivered(PutKey(aDelivered, deliveryKey(aJob[1]), <<now>>), now)
    /\ aJob' = <<>>
    /\ aNowMs' = now
    /\ apc' = "loop"
    /\ UNCHANGED <<alarm, now, nextId, fpc, floc, aNext, aTxnMs, retry, faults,
                   sent, failed, skipped, handled, unmarked, invSent,
                   cancelled, finished, raced, thrown>>

\* unknown doAtType: the transaction removes the occurrence; continue: the
\* next iteration takes nowMs = Date.now() and waits for its read of "jobs"
AlarmPurge ==
    /\ apc = "purge"
    /\ jobs' = PurgeWrite(jobs, aJob[1])
    /\ purged' = IF FindOccurrence(jobs, aJob[1], 1) = 0 THEN purged
                 ELSE Bump(purged, deliveryKey(aJob[1]))
    /\ aJob' = <<>>
    /\ aNowMs' = now
    /\ apc' = "loop"
    /\ UNCHANGED <<delivered, alarm, now, nextId, fpc, floc, aDelivered, aNext,
                   aTxnMs, retry, faults, sent, failed, skipped, handled,
                   unmarked, invSent, cancelled, finished, raced, thrown>>

\* the read of the loop head completes and the TypeError of
\* handler.innerContent(job) leaves alarm(): nothing is sent or stored, and
\* the host retries the failed invocation
AlarmThrow ==
    /\ apc = "loop"
    /\ Throws
    /\ thrown' = thrown \cup {deliveryKey(SortJobs(jobs)[1])}
    /\ aDelivered' = <<>>
    /\ aJob' = <<>>
    /\ aNowMs' = 0
    /\ aTxnMs' = 0
    /\ apc' = "idle"
    /\ retry' = TRUE
    /\ UNCHANGED <<jobs, delivered, alarm, now, nextId, fpc, floc, aNext,
                   faults, sent, failed, skipped, handled, unmarked, invSent,
                   cancelled, finished, raced, purged>>

\* delivered[key] = Date.now(); pruneDelivered(delivered, delivered[key])
MarkDelivered(d, job, nowMs) == pruneDelivered(PutKey(d, deliveryKey(job), <<nowMs>>), nowMs)

\* the outbound fetch answers ok: the message is posted; the key is marked
\* in the local map with the time of the answer, the map is pruned, and
\* alarm() waits for the put of "delivered"
AlarmSendOk ==
    /\ apc = "send"
    /\ sent' = Bump(sent, deliveryKey(aJob[1]))
    /\ invSent' = Append(invSent, [key |-> deliveryKey(aJob[1]), at |-> now,
                                   job |-> aJob[1], msg |-> Message(aJob[1])])
    /\ aDelivered' = MarkDelivered(aDelivered, aJob[1], now)
    /\ apc' = "mark"
    /\ UNCHANGED <<jobs, delivered, alarm, now, nextId, fpc, floc, aJob, aNext,
                   aNowMs, aTxnMs, retry, faults, failed, skipped, handled,
                   unmarked, cancelled, finished, raced, purged, thrown>>

\* the outbound fetch answers non-ok: pruneDelivered(delivered, Date.now()),
\* and alarm() waits for the put of "delivered"
AlarmSendFail ==
    /\ apc = "send"
    /\ faults < MaxFaults
    /\ faults' = faults + 1
    /\ failed' = Bump(failed, deliveryKey(aJob[1]))
    /\ aDelivered' = pruneDelivered(aDelivered, now)
    /\ apc' = "fail_put"
    /\ UNCHANGED <<jobs, delivered, alarm, now, nextId, fpc, floc, aJob, aNext,
                   aNowMs, aTxnMs, retry, sent, skipped, handled, unmarked,
                   invSent, cancelled, finished, raced, purged, thrown>>

\* AlarmMark without the put: the key is marked in the local map only
AlarmMarkLocalOnly ==
    /\ apc = "mark"
    /\ apc' = "txn_get"
    /\ UNCHANGED <<jobs, delivered, alarm, now, nextId, fpc, floc, aDelivered,
                   aJob, aNext, aNowMs, aTxnMs, retry, faults, sent, failed, skipped,
                   handled, unmarked, invSent, cancelled, finished, raced,
                   purged, thrown>>

\* after an ok send: await storage.put("delivered", delivered) completes with
\* the map as marked and pruned when the send was answered; the removal
\* transaction starts and its closure awaits txn.get("jobs")
AlarmMark ==
    /\ apc = "mark"
    /\ delivered' = aDelivered
    /\ apc' = "txn_get"
    /\ UNCHANGED <<jobs, alarm, now, nextId, fpc, floc, aDelivered, aJob,
                   aNext, aNowMs, aTxnMs, retry, faults, sent, failed, skipped,
                   handled, unmarked, invSent, cancelled, finished, raced,
                   purged, thrown>>

\* the closure of the removal transaction goes on after its txn.get("jobs"):
\* it reads Date.now() in the catch-up loop and awaits txn.put("jobs")
AlarmTxnGet ==
    /\ apc = "txn_get"
    /\ aTxnMs' = now
    /\ apc' = "remove"
    /\ UNCHANGED <<jobs, delivered, alarm, now, nextId, fpc, floc, aDelivered,
                   aJob, aNext, aNowMs, retry, faults, sent, failed, skipped,
                   handled, unmarked, invSent, cancelled, finished, raced,
                   purged, thrown>>

\* AlarmFailPut with the key marked before r.ok is looked at
AlarmFailPutMarks ==
    /\ apc = "fail_put"
    /\ delivered' = PutKey(aDelivered, deliveryKey(aJob[1]), <<now>>)
    /\ apc' = "fail_text"
    /\ UNCHANGED <<jobs, alarm, now, nextId, fpc, floc, aDelivered, aJob,
                   aNext, aNowMs, aTxnMs, retry, faults, sent, failed, skipped,
                   handled, unmarked, invSent, cancelled, finished, raced,
                   purged, thrown>>

\* after a non-ok send: await storage.put("delivered", delivered) completes
\* with the map as pruned when the send was answered; alarm() goes on to
\* await r.text()
AlarmFailPut ==
    /\ apc = "fail_put"
    /\ delivered' = aDelivered
    /\ apc' = "fail_text"
    /\ UNCHANGED <<jobs, alarm, now, nextId, fpc, floc, aDelivered, aJob,
                   aNext, aNowMs, aTxnMs, retry, faults, sent, failed, skipped,
                   handled, unmarked, invSent, cancelled, finished, raced,
                   purged, thrown>>

\* r.text() has answered: throw new Error("Discord API error ..."); the
\* invocation has failed and the host will retry it
AlarmFailThrow ==
    /\ apc = "fail_text"
    /\ aDelivered' = <<>>
    /\ aJob' = <<>>
    /\ aNowMs' = 0
    /\ aTxnMs' = 0
    /\ apc' = "idle"
    /\ retry' = TRUE
    /\ UNCHANGED <<jobs, delivered, alarm, now, nextId, fpc, floc, aNext,
                   faults, sent, failed, skipped, handled, unmarked, invSent,
                   cancelled, finished, raced, purged, thrown>>

\* NextOccurrence without the catch-up loop: always one day later
NextOccurrenceNoCatchUp(cur, nowMs) ==
    [cur EXCEPT !.scheduledUnix = cur.scheduledUnix + DaySec,
                !.runAtMs = cur.runAtMs + DayMs]

\* NextOccurrence advancing runAtMs only
NextOccurrenceSameUnix(cur, nowMs) ==
    [cur EXCEPT
       !.runAtMs = CatchUp(cur.scheduledUnix + DaySec, cur.runAtMs + DayMs, nowMs).runAtMs]

\* NextOccurrence built without the spread of repeatDaily
NextOccurrenceNotRepeating(cur, nowMs) ==
    [cur EXCEPT
       !.scheduledUnix = CatchUp(cur.scheduledUnix + DaySec, cur.runAtMs + DayMs, nowMs).scheduledUnix,
       !.runAtMs = CatchUp(cur.scheduledUnix + DaySec, cur.runAtMs + DayMs, nowMs).runAtMs,
       !.repeatDaily = FALSE]

\* the re-inserted record of a repeatDaily job
NextOccurrence(cur, nowMs) ==
    [cur EXCEPT
       !.scheduledUnix = CatchUp(cur.scheduledUnix + DaySec, cur.runAtMs + DayMs, nowMs).scheduledUnix,
       !.runAtMs = CatchUp(cur.scheduledUnix + DaySec, cur.runAtMs + DayMs, nowMs).runAtMs]

\* RemoveWrite re-inserting the occurrence the loop captured, whether or not
\* the transaction still finds it in "jobs"
RemoveWriteStale(cur, job, nowMs) ==
    LET s == SortJobs(cur)
        idx == FindOccurrence(s, job, 1)
        rest == IF idx = 0 THEN s ELSE Splice(s, idx)
    IN  IF job.repeatDaily
        THEN SortJobs(Append(rest, NextOccurrence(job, nowMs)))
        ELSE rest

\* RemoveWrite leaving a job that does not repeat where it is
RemoveWriteKeepsOneShot(cur, job, nowMs) ==
    LET s == SortJobs(cur)
        idx == FindOccurrence(s, job, 1)
    IN  IF idx = 0 THEN cur
        ELSE IF s[idx].repeatDaily
             THEN SortJobs(Append(Splice(s, idx), NextOccurrence(s[idx], nowMs)))
             ELSE s

\* RemoveWrite with findIndex matching on the id alone
RemoveWriteById(cur, job, nowMs) ==
    LET s == SortJobs(cur)
        idx == FindById(s, job.id, 1)
    IN  IF idx = 0 THEN cur
        ELSE IF s[idx].repeatDaily
             THEN SortJobs(Append(Splice(s, idx), NextOccurrence(s[idx], nowMs)))
             ELSE SortJobs(Splice(s, idx))

\* RemoveWrite pushing the next occurrence without the splice
RemoveWriteNoSplice(cur, job, nowMs) ==
    LET s == SortJobs(cur)
        idx == FindOccurrence(s, job, 1)
    IN  IF idx = 0 THEN cur
        ELSE IF s[idx].repeatDaily
             THEN SortJobs(Append(s, NextOccurrence(s[idx], nowMs)))
             ELSE SortJobs(Splice(s, idx))

\* the closure of the remove/reschedule transaction: what "jobs" holds after it
RemoveWrite(cur, job, nowMs) ==
    LET s == SortJobs(cur)
        idx == FindOccurrence(s, job, 1)
    IN  IF idx = 0 THEN cur
        ELSE IF s[idx].repeatDaily
             THEN SortJobs(Append(Splice(s, idx), NextOccurrence(s[idx], nowMs)))
             ELSE SortJobs(Splice(s, idx))

\* AlarmRemove leaving the loop after the first job it has processed
AlarmRemoveAndExit ==
    /\ apc = "remove"
    /\ jobs' = RemoveWrite(jobs, aJob[1], aTxnMs)
    /\ aTxnMs' = 0
    /\ handled' = IF FindOccurrence(jobs, aJob[1], 1) = 0 THEN handled
                  ELSE Bump(handled, deliveryKey(aJob[1]))
    /\ finished' = IF FindOccurrence(jobs, aJob[1], 1) # 0
                      /\ ~jobs[FindOccurrence(jobs, aJob[1], 1)].repeatDaily
                   THEN finished \cup {aJob[1].id}
                   ELSE finished
    /\ aJob' = <<>>
    /\ aDelivered' = pruneDelivered(aDelivered, now)
    /\ apc' = "final_put"
    /\ UNCHANGED <<delivered, alarm, now, nextId, fpc, floc, aNext, aNowMs,
                   retry, faults, sent, failed, skipped, unmarked, invSent,
                   cancelled, raced, purged, thrown>>

\* 2) the removal transaction commits: this exact occurrence is removed, or
\* rescheduled after the time its closure has read; the next iteration
\* takes nowMs = Date.now() and waits for its read of "jobs"
AlarmRemove ==
    /\ apc = "remove"
    /\ jobs' = RemoveWrite(jobs, aJob[1], aTxnMs)
    /\ aTxnMs' = 0
    /\ handled' = IF FindOccurrence(jobs, aJob[1], 1) = 0 THEN handled
                  ELSE Bump(handled, deliveryKey(aJob[1]))
    /\ finished' = IF FindOccurrence(jobs, aJob[1], 1) # 0
                      /\ ~jobs[FindOccurrence(jobs, aJob[1], 1)].repeatDaily
                   THEN finished \cup {aJob[1].id}
                   ELSE finished
    /\ aJob' = <<>>
    /\ aNowMs' = now
    /\ apc' = "loop"
    /\ UNCHANGED <<delivered, alarm, now, nextId, fpc, floc, aDelivered, aNext,
                   retry, faults, sent, failed, skipped, unmarked, invSent,
                   cancelled, raced, purged, thrown>>

\* AlarmFinalPut without the put
AlarmFinalPutSkipped ==
    /\ apc = "final_put"
    /\ apc' = "final_get"
    /\ UNCHANGED <<jobs, delivered, alarm, now, nextId, fpc, floc, aDelivered,
                   aJob, aNext, aNowMs, aTxnMs, retry, faults, sent, failed,
                   skipped, handled, unmarked, invSent, cancelled, finished,
                   raced, purged, thrown>>

\* await storage.put("delivered", delivered) completes with the map as
\* pruned when the loop was left
AlarmFinalPut ==
    /\ apc = "final_put"
    /\ delivered' = aDelivered
    /\ apc' = "final_get"
    /\ UNCHANGED <<jobs, alarm, now, nextId, fpc, floc, aDelivered, aJob,
                   aNext, aNowMs, aTxnMs, retry, faults, sent, failed, skipped,
                   handled, unmarked, invSent, cancelled, finished, raced,
                   purged, thrown>>

\* finalJobs = await storage.get("jobs"); sort; next = finalJobs[0]
AlarmFinalGet ==
    /\ apc = "final_get"
    /\ aNext' = NextOf(jobs)
    /\ apc' = "final_set"
    /\ UNCHANGED <<jobs, delivered, alarm, now, nextId, fpc, floc, aDelivered,
                   aJob, aNowMs, aTxnMs, retry, faults, sent, failed, skipped,
                   handled, unmarked, invSent, cancelled, finished, raced,
                   purged, thrown>>

\* setAlarm(next.runAtMs) or deleteAlarm(); alarm() returns
AlarmFinalSet ==
    /\ apc = "final_set"
    /\ alarm' = aNext
    /\ aNext' = <<>>
    /\ aDelivered' = <<>>
    /\ aNowMs' = 0
    /\ aTxnMs' = 0
    /\ apc' = "idle"
    /\ UNCHANGED <<jobs, delivered, now, nextId, fpc, floc, aJob, retry,
                   faults, sent, failed, skipped, handled, unmarked, invSent,
                   cancelled, finished, raced, purged, thrown>>

\* the invocation stops at a suspension point (eviction, exceeded limits,
\* a storage error); the host retries it like any failed invocation
AlarmCrash ==
    /\ apc # "idle"
    /\ faults < MaxFaults
    /\ faults' = faults + 1
    /\ unmarked' = IF apc = "mark" THEN Bump(unmarked, deliveryKey(aJob[1])) ELSE unmarked
    /\ apc' = "idle"
    /\ aDelivered' = <<>>
    /\ aJob' = <<>>
    /\ aNext' = <<>>
    /\ aNowMs' = 0
    /\ aTxnMs' = 0
    /\ retry' = TRUE
    /\ UNCHANGED <<jobs, delivered, alarm, now, nextId, fpc, floc, sent,
                   failed, skipped, handled, invSent, cancelled, finished,
                   raced, purged, thrown>>

----------------------------------------------------------------------------
(* Specifications *)

ScheduleStep(p, times) ==
    \/ \E req \in Requests(times, now) : SchedulePost(p, req)
    \/ ScheduleTxn(p)
    \/ ScheduleGet(p)
    \/ ScheduleSetAlarm(p)

\* /schedule of jobs that do not repeat
ScheduleOnceStep(p, times) ==
    \/ \E req \in {r \in Requests(times, now) : ~r.repeatDaily} : SchedulePost(p, req)
    \/ ScheduleTxn(p)
    \/ ScheduleGet(p)
    \/ ScheduleSetAlarm(p)

\* /schedule from the schedule command of any kind
ScheduleKindStep(p, kinds, times) ==
    \/ \E req \in RequestsOfKind(kinds, times, now) : SchedulePost(p, req)
    \/ ScheduleTxn(p)
    \/ ScheduleGet(p)
    \/ ScheduleSetAlarm(p)

CancelStep(p) ==
    \/ \E jobId \in CancelIds : CancelTxn(p, jobId)
    \/ CancelGet(p)
    \/ CancelSetAlarm(p)

\* the steps of alarm() when every send answers ok
AlarmOkStep ==
    \/ AlarmFire
    \/ AlarmLoad
    \/ AlarmLoop
    \/ AlarmSendOk
    \/ AlarmMark
    \/ AlarmTxnGet
    \/ AlarmRemove
    \/ AlarmFinalPut
    \/ AlarmFinalGet
    \/ AlarmFinalSet

\* the steps of a non-ok send
AlarmFailStep ==
    \/ AlarmSendFail
    \/ AlarmFailPut
    \/ AlarmFailThrow

\* A caller sending /schedule, a caller sending /cancel and alarm()
\* interleave at every await; every send answers ok and no invocation stops
Next ==
    \/ now < MaxConcTick * HalfDayMs /\ Tick
    \/ ScheduleStep(1, {HalfDaySec, DaySec}) /\ Admitted(MaxConcJobs)
    \/ CancelStep(2)
    \/ \E p \in Procs : Respond(p)
    \/ AlarmOkStep

Spec == Init /\ [][Next]_vars

\* /schedule and /cancel requests of one caller, run one after another
NextSeq ==
    \/ ScheduleStep(1, {HalfDaySec, DaySec}) /\ Admitted(MaxJobs)
    \/ CancelStep(1)
    \/ Respond(1)

SpecSeq == Init /\ [][NextSeq]_vars

\* /schedule requests of two callers racing
NextRace ==
    \E p \in Procs :
       \/ ScheduleStep(p, {HalfDaySec, DaySec}) /\ Admitted(MaxJobs)
       \/ Respond(p)

SpecRace == Init /\ [][NextRace]_vars

\* alarm() invocations with failing sends, abrupt stops and host retries;
\* /schedule requests arrive between invocations; the clock runs throughout
NextAlarm ==
    \/ now < MaxAlarmTick * HalfDayMs /\ Tick
    \/ apc = "idle" /\ (ScheduleStep(1, {HalfDaySec}) \/ Respond(1)) /\ Admitted(MaxAlarmJobs)
    \/ fpc[1] = "idle" /\ (AlarmOkStep \/ AlarmFailStep \/ AlarmCrash)

SpecAlarm == Init /\ [][NextAlarm]_vars

\* one job and alarm() invocations that may come days late; every send answers ok
NextLate ==
    \/ now < MaxTick * HalfDayMs /\ Tick
    \/ apc = "idle" /\ (ScheduleStep(1, {HalfDaySec}) \/ Respond(1)) /\ Admitted(MaxLateJobs)
    \/ fpc[1] = "idle" /\ AlarmOkStep

SpecLate == Init /\ [][NextLate]_vars

\* one job of any kind, scheduled on an empty tenant, and the alarm()
\* invocations that follow, on time or late; every send answers ok
NextEnd ==
    \/ now < MaxEndTick * HalfDayMs /\ Tick
    \/ apc = "idle" /\ (ScheduleKindStep(1, KnownTypes, {HalfDaySec}) \/ Respond(1))
                    /\ Admitted(MaxEndJobs)
    \/ fpc[1] = "idle" /\ AlarmOkStep

SpecEnd == Init /\ [][NextEnd]_vars

\* alarm() on the tenant with older data; every send answers ok
NextLegacy ==
    \/ now < LegacyNow + MaxLegacyTick * HalfDayMs /\ Tick
    \/ AlarmOkStep
    \/ AlarmPurge
    \/ AlarmThrow

SpecLegacy == InitLegacy /\ [][NextLegacy]_vars

\* /schedule and /list requests of one caller, run one after another
NextList ==
    \/ ScheduleStep(1, {HalfDaySec, DaySec}) /\ Admitted(MaxJobs)
    \/ List(1)
    \/ Respond(1)

SpecList == Init /\ [][NextList]_vars

\* the schedule commands of one caller, run one after another as the
\* clock runs
CommandStep(p) ==
    \/ \E i \in Interactions, allowed \in BOOLEAN : RunSchedule(p, i, allowed)
    \/ ScheduleTxn(p)
    \/ ScheduleGet(p)
    \/ ScheduleSetAlarm(p)

NextCmd ==
    \/ now < MaxCmdTick * HalfDayMs /\ Tick
    \/ CommandStep(1) /\ Admitted(MaxCmdJobs)
    \/ Respond(1)

SpecCmd == Init /\ [][NextCmd]_vars

\* /schedule requests of one caller whose kind is a known one, names no
\* property of doAtTypeHandlers, or names an inherited one
NextKind ==
    \/ ScheduleKindStep(1, KnownTypes \cup LegacyTypes \cup InheritedNames,
                        {HalfDaySec, DaySec}) /\ Admitted(MaxKindJobs)
    \/ Respond(1)

SpecKind == Init /\ [][NextKind]_vars

\* the tenant with older data: /schedule, /cancel and /list requests of
\* one caller come in between the invocations of alarm(), whose sends may
\* answer non-ok and which may stop abruptly
NextDedup ==
    \/ now < LegacyNow + MaxDedupTick * HalfDayMs /\ Tick
    \/ /\ apc = "idle"
       /\ \/ ScheduleStep(1, {LegacyNow \div MsPerSec + HalfDaySec})
          \/ CancelStep(1)
          \/ List(1)
          \/ Respond(1)
       /\ Admitted(MaxLegacyJobs + MaxDedupJobs)
    \/ /\ fpc[1] = "idle"
       /\ \/ AlarmOkStep
          \/ AlarmFailStep
          \/ AlarmPurge
          \/ AlarmThrow
          \/ AlarmCrash

SpecDedup == InitLegacy /\ [][NextDedup]_vars

\* alarm() on the tenant whose "delivered" object holds older data; a send
\* may answer non-ok
NextPrune ==
    \/ now < LegacyNow + MaxPruneTick * HalfDayMs /\ Tick
    \/ AlarmOkStep
    \/ AlarmFailStep
    \/ AlarmPurge
    \/ AlarmThrow

SpecPrune == InitPrune /\ [][NextPrune]_vars

\* /list and /schedule requests of one caller on the tenant with stored
\* jobs; each /schedule adds a one-shot job due at the end of the first day,
\* until the store holds one job more than the largest stored at the start
NextListing ==
    \/ ScheduleOnceStep(1, {DaySec}) /\ Admitted(MaxListJobs + 1)
    \/ List(1)
    \/ Respond(1)

SpecListing == InitList /\ [][NextListing]_vars

\* alarm() on the tenant with older data while the clock runs; a send may
\* answer non-ok. An invocation under way takes its next step, and a send
\* is not answered non-ok for ever
NextTerm ==
    \/ now < LegacyNow + MaxTermTick * HalfDayMs /\ Tick
    \/ AlarmOkStep
    \/ AlarmFailStep
    \/ AlarmPurge
    \/ AlarmThrow

FairnessTerm ==
    WF_vars(AlarmOkStep \/ AlarmFailPut \/ AlarmFailThrow \/ AlarmPurge \/ AlarmThrow)

SpecTerm == InitLegacy /\ [][NextTerm]_vars /\ FairnessTerm

\* /schedule requests for jobs that do not repeat, the clock and alarm()
\* interleave at every await; a send may answer non-ok, and the host
\* retries the failed invocation. The clock reaches every time a job is due.
NextLive ==
    \/ now < MaxLiveTick * HalfDayMs /\ Tick
    \/ ScheduleOnceStep(1, {HalfDaySec, DaySec}) /\ Admitted(MaxLiveJobs)
    \/ Respond(1)
    \/ AlarmOkStep
    \/ AlarmFailStep

\* the clock runs, a request under way completes, the host fires a due
\* alarm and retries a failed invocation, an invocation under way goes on,
\* and a send that is tried again and again answers ok in the end
Fairness ==
    /\ WF_vars(now < MaxLiveTick * HalfDayMs /\ Tick)
    /\ WF_vars(ScheduleGet(1) \/ ScheduleSetAlarm(1) \/ Respond(1))
    /\ WF_vars(AlarmOkStep)
    /\ WF_vars(AlarmFailPut \/ AlarmFailThrow)

SpecLive == Init /\ [][NextLive]_vars /\ Fairness

----------------------------------------------------------------------------
(* Properties *)

RunAtSet(s) == {s[i].runAtMs : i \in 1 .. Len(s)}
IdSet(s) == {s[i].id : i \in 1 .. Len(s)}
Records(s) == {s[i] : i \in 1 .. Len(s)}
MinOf(S) == CHOOSE m \in S : \A x \in S : m <= x
Responded(p, text) ==
    fpc[p] = "done" /\ floc[p].kind = "response" /\ floc[p].content = text

\* C1: whenever no /schedule or /cancel of the sequence is in progress, the
\* alarm is the minimum runAtMs of the stored jobs, and there is no alarm
\* exactly when no job is stored.
C1_AlarmIsMinRunAt ==
    fpc[1] \in {"idle", "done"} =>
        IF jobs = <<>> THEN alarm = <<>> ELSE alarm = <<MinOf(RunAtSet(jobs))>>

\* a job scheduled later but due earlier heads the array after a /cancel
C1_Witness ==
    /\ Responded(1, "Cancelled job")
    /\ Len(jobs) = 2
    /\ jobs[1].id > jobs[2].id
    /\ jobs[1].runAtMs < jobs[2].runAtMs
    /\ alarm = <<jobs[1].runAtMs>>

\* C10: a /cancel that finds its id returns that record and removes exactly
\* it; a /cancel of an id that is not stored (so of an id cancelled before)
\* answers "No job found" as a normal response and changes neither "jobs"
\* nor the alarm; a cancelled id is never found again.
C10_CancelTwice ==
    [][ /\ (fpc[1] = "idle" /\ fpc'[1] = "cancel_get") =>
              /\ floc'[1].removed.id = floc'[1].jobId
              /\ floc'[1].jobId \notin cancelled
              /\ floc'[1].removed \in Records(jobs)
              /\ jobs' = SelectSeq(jobs, LAMBDA x : x # floc'[1].removed)
              /\ Len(jobs') = Len(jobs) - 1
        /\ (fpc[1] = "idle" /\ fpc'[1] = "done" /\ floc'[1].content = "No job found") =>
              /\ floc'[1].jobId \notin IdSet(jobs)
              /\ jobs' = jobs
              /\ alarm' = alarm
        /\ (fpc[1] = "cancel_set" /\ fpc'[1] = "done") =>
              /\ floc'[1].content = "Cancelled job"
              /\ floc'[1].removed = floc[1].removed
      ]_vars

\* the second /cancel of an id has answered while another job is still stored
C10_Witness ==
    /\ Responded(1, "No job found")
    /\ floc[1].jobId \in cancelled
    /\ jobs # <<>>
    /\ alarm = <<MinOf(RunAtSet(jobs))>>

KeysOf(s) == {deliveryKey(s[i]) : i \in 1 .. Len(s)}

\* C2 as stated: over all alarm() invocations, retried and stopped ones
\* included, no occurrence has more than one ok send.
C2_AtMostOneSend ==
    \A k \in DOMAIN sent : sent[k] <= 1

\* C2, amended: an occurrence has one ok send, plus one for each invocation
\* that stopped after its send answered ok and before the put of
\* "delivered" completed.
C2_AtMostOneSendPerMark ==
    \A k \in DOMAIN sent : sent[k] <= 1 + Count(unmarked, k)

\* an occurrence whose send failed once, then answered ok, whose invocation
\* stopped before the removal, and which the retry skipped and removed
C2_Witness ==
    \E k \in DOMAIN sent :
        /\ sent[k] = 1
        /\ Count(failed, k) = 1
        /\ Count(skipped, k) = 1
        /\ Count(handled, k) = 1
        /\ Count(unmarked, k) = 0

\* C3: an iteration whose due head is already in the stored "delivered"
\* sends nothing and goes to the removal transaction; that transaction
\* removes the occurrence (re-inserting a later one of the same id when
\* repeatDaily), for the first and only time, and the occurrence then has
\* exactly one ok send unless an earlier invocation stopped before marking it.
C3_SkipSendStillRemove ==
    [][ /\ (apc = "loop" /\ now' = now /\ faults' = faults /\ IsDue(jobs, aNowMs)
              /\ deliveryKey(SortJobs(jobs)[1]) \in DOMAIN delivered) =>
              /\ apc' = "txn_get"
              /\ aJob' = <<SortJobs(jobs)[1]>>
              /\ sent' = sent
        /\ (apc = "remove" /\ apc' = "loop" /\ aJob[1] \in Records(jobs)) =>
              /\ deliveryKey(aJob[1]) \notin KeysOf(jobs')
              /\ handled'[deliveryKey(aJob[1])] = 1
              /\ sent' = sent
              /\ sent[deliveryKey(aJob[1])] = 1 + Count(unmarked, deliveryKey(aJob[1]))
              /\ IF aJob[1].repeatDaily
                 THEN /\ Len(jobs') = Len(jobs)
                      /\ \E r \in Records(jobs') :
                            r.id = aJob[1].id /\ r.scheduledUnix > aJob[1].scheduledUnix
                 ELSE /\ Len(jobs') = Len(jobs) - 1
                      /\ aJob[1].id \notin IdSet(jobs')
      ]_vars

\* a repeatDaily occurrence was sent once, its invocation stopped before the
\* removal, and the next invocation skipped the send and rescheduled it
C3_Witness ==
    /\ apc = "loop"
    /\ \E k \in DOMAIN skipped :
          /\ Count(sent, k) = 1
          /\ Count(handled, k) = 1
          /\ \E r \in Records(jobs) : r.id = k[1] /\ r.repeatDaily /\ r.scheduledUnix > k[2]

\* C4: the steps that follow a non-ok send put a "delivered" without the
\* occurrence's key and end the invocation as failed (the host owes a
\* retry); they leave "jobs" as it was, with the occurrence in it.
C4_SendFailureThrows ==
    [][ /\ (apc = "send" /\ apc' = "fail_put") =>
              /\ jobs' = jobs
              /\ delivered' = delivered
        /\ (apc = "fail_put" /\ apc' # "fail_put" /\ faults' = faults) =>
              /\ apc' = "fail_text"
              /\ jobs' = jobs
              /\ aJob[1] \in Records(jobs')
              /\ deliveryKey(aJob[1]) \notin DOMAIN delivered'
        /\ (apc = "fail_text" /\ apc' # "fail_text" /\ faults' = faults) =>
              /\ apc' = "idle"
              /\ retry'
              /\ jobs' = jobs
              /\ delivered' = delivered
              /\ aJob[1] \in Records(jobs')
              /\ deliveryKey(aJob[1]) \notin DOMAIN delivered'
      ]_vars

\* alarm() has thrown after a non-ok send, the only fault so far
C4_Witness ==
    /\ apc = "idle"
    /\ retry
    /\ faults = 1
    /\ \E k \in DOMAIN failed :
          /\ failed[k] = 1
          /\ k \in KeysOf(jobs)
          /\ k \notin DOMAIN delivered
          /\ Count(sent, k) = 0

\* C5 as stated: once the send for an occurrence N has failed in an
\* invocation and again in the retried one, every stored job due no later
\* than N has been attempted (a send answered, ok or not).
C5_OthersAttempted ==
    \A n \in DOMAIN failed :
        (failed[n] >= 2 /\ apc = "idle") =>
            \A r \in Records(jobs) :
                r.runAtMs <= n[2] * MsPerSec =>
                    Count(sent, deliveryKey(r)) + Count(failed, deliveryKey(r)) >= 1

\* the removal transaction acts on a stored repeatDaily occurrence
Reschedules ==
    /\ apc = "remove"
    /\ apc' = "loop"
    /\ aJob[1] \in Records(jobs)
    /\ aJob[1].repeatDaily

\* C6: a repeatDaily occurrence due at D and processed at now >= D, the
\* time its removal transaction reads, is re-inserted at D + k days for the
\* smallest k >= 1 that makes it strictly greater than that time, with
\* scheduledUnix advanced by the same k * 86400.
C6_CatchUpFirstFutureBoundary ==
    [][ Reschedules =>
          /\ aJob[1].runAtMs <= aTxnMs
          /\ \E r \in Records(jobs') :
                /\ r.id = aJob[1].id
                /\ \E k \in 1 .. (MaxTick + 1) :
                      /\ r.runAtMs = aJob[1].runAtMs + k * DayMs
                      /\ r.scheduledUnix = aJob[1].scheduledUnix + k * DaySec
                      /\ r.runAtMs > aTxnMs
                      /\ (k > 1 => aJob[1].runAtMs + (k - 1) * DayMs <= aTxnMs)
      ]_vars

\* the first occurrence was processed exactly two days after it was due
\* (a daily boundary) and went straight to the third day after
C6_Witness ==
    /\ now = HalfDayMs + 2 * DayMs
    /\ DOMAIN handled = {<<1, HalfDaySec>>}
    /\ \E r \in Records(jobs) :
          r.id = 1 /\ r.scheduledUnix = HalfDaySec + 3 * DaySec
                   /\ r.runAtMs = HalfDayMs + 3 * DayMs

SameJob(e1, e2) == e1.key[1] = e2.key[1]
Missed(e) == e.at >= e.key[2] * MsPerSec + DayMs

\* C7 as stated: a job processed after at least one missed daily window has
\* no second ok send in that invocation (it is not due again in it).
C7_OneSendInInvocation ==
    \A i, j \in 1 .. Len(invSent) :
        (i < j /\ SameJob(invSent[i], invSent[j])) => ~Missed(invSent[i])

\* C7, amended: every sent occurrence was due when sent; a job has a
\* second ok send in one invocation only for an occurrence that came due
\* after the earlier send (never for a window missed before it); every
\* removed occurrence has exactly one ok send; and the re-inserted runAtMs
\* is strictly greater than the time read in the removal transaction.
C7_NoBacklog ==
    [][ /\ \A i \in 1 .. Len(invSent') :
              invSent'[i].key[2] * MsPerSec <= invSent'[i].at
        /\ \A i, j \in 1 .. Len(invSent') :
              (i < j /\ SameJob(invSent'[i], invSent'[j])) =>
                  invSent'[j].key[2] * MsPerSec > invSent'[i].at
        /\ \A k \in DOMAIN handled' : Count(sent', k) = 1
        /\ Reschedules =>
              /\ sent' = sent
              /\ \E r \in Records(jobs') : r.id = aJob[1].id /\ r.runAtMs > aTxnMs
      ]_vars

\* the job was processed two days late: the invocation's loop has ended
\* with one ok send, and the job waits for the third day after
C7_Witness ==
    /\ apc = "final_put"
    /\ Len(invSent) = 1
    /\ invSent[1].at >= invSent[1].key[2] * MsPerSec + 2 * DayMs
    /\ \E r \in Records(jobs) :
          r.id = invSent[1].key[1] /\ r.runAtMs > now
                                   /\ r.scheduledUnix = invSent[1].key[2] + 3 * DaySec

\* C8: two /schedule requests interleaved at the level of storage operations
\* are both reflected in "jobs": no step drops a record that was there, and
\* the array holds exactly one record for every id handed out.
C8_BothInsertionsKept ==
    [][ /\ \A r \in Records(jobs) : r \in Records(jobs')
        /\ Len(jobs') = nextId'
        /\ IdSet(jobs') = 1 .. nextId'
        /\ \A p \in Procs :
              fpc'[p] \in {"sched_get", "sched_set"} => floc'[p].j \in Records(jobs')
      ]_vars

\* both requests have run their transaction on top of an earlier job and
\* neither has resynced the alarm yet
C8_Witness ==
    /\ \A p \in Procs : fpc[p] = "sched_get" /\ floc[p].j \in Records(jobs)
    /\ floc[1].j.id # floc[2].j.id
    /\ Len(jobs) = 3
    /\ \E r \in Records(jobs) : r.id \notin {floc[1].j.id, floc[2].j.id}

\* C9: /schedule, /cancel and the remove/reschedule step of alarm() never
\* lose each other's update. The removal transaction keeps every record of
\* another job and adds no id; a /schedule transaction keeps every record
\* and adds its own; a job removed by /cancel is never in "jobs" again; and
\* a job inserted while a send was in flight stays until it is cancelled or
\* its own delivery removes it.
C9_NoLostUpdate ==
    [][ /\ (apc = "remove" /\ apc' = "loop") =>
              /\ \A r \in Records(jobs) : r.id # aJob[1].id => r \in Records(jobs')
              /\ IdSet(jobs') \subseteq IdSet(jobs)
        /\ nextId' # nextId =>
              /\ \A r \in Records(jobs) : r \in Records(jobs')
              /\ IdSet(jobs') = IdSet(jobs) \cup {nextId'}
        /\ cancelled' \cap IdSet(jobs') = {}
        /\ \A id \in 1 .. nextId' : id \in IdSet(jobs') \cup cancelled' \cup finished'
        /\ Cardinality(IdSet(jobs')) = Len(jobs')
      ]_vars

\* job 2 was inserted while the send of job 1 was in flight and outlived the
\* removal of job 1: it was sent in its turn, and was cancelled while that
\* send was in flight, so that its own removal transaction found nothing
C9_Witness ==
    /\ raced = {2}
    /\ \E k \in DOMAIN handled : k[1] = 1
    /\ cancelled = {2}
    /\ \E k \in DOMAIN sent : k[1] = 2 /\ Count(handled, k) = 0
    /\ apc = "loop"
    /\ 2 \notin IdSet(jobs)

\* the entries of a sequence of jobs that carry the id
EntriesOf(s, id) == {i \in 1 .. Len(s) : s[i].id = id}

\* C11: the /schedule transaction adds exactly one record, the job built
\* from the request with runAtMs = scheduledUnix * 1000, and keeps every
\* stored record as it was; a /list that follows reads every stored job,
\* the new one included, exactly once.
C11_ScheduleAddsOneListShowsIt ==
    [][ /\ nextId' # nextId =>
              /\ Len(jobs') = Len(jobs) + 1
              /\ \A r \in Records(jobs) : r \in Records(jobs')
              /\ Cardinality(EntriesOf(jobs', nextId')) = 1
              /\ \A i \in EntriesOf(jobs', nextId') :
                    /\ jobs'[i] = floc'[1].j
                    /\ jobs'[i].scheduledUnix \in {HalfDaySec, DaySec}
                    /\ jobs'[i].runAtMs = jobs'[i].scheduledUnix * MsPerSec
        /\ (fpc[1] = "idle" /\ fpc'[1] = "done" /\ jobs # <<>>) =>
              /\ floc'[1].content = "Scheduled jobs"
              /\ floc'[1].total = Len(jobs)
              /\ \A id \in 1 .. nextId :
                    Cardinality(EntriesOf(floc'[1].shown, id)) = 1
              /\ \A i \in 1 .. Len(floc'[1].shown) :
                    floc'[1].shown[i] \in Records(jobs)
      ]_vars

\* the /list after the last /schedule: the third job, due before the two
\* stored ones, is read once and first, with the other two behind it
C11_Witness ==
    /\ Responded(1, "Scheduled jobs")
    /\ floc[1].total = 3
    /\ floc[1].shown[1].id = 3
    /\ floc[1].shown[1].runAtMs = HalfDaySec * MsPerSec
    /\ floc[1].shown[2].runAtMs = DaySec * MsPerSec
    /\ Cardinality(EntriesOf(floc[1].shown, 3)) = 1

\* C12 as stated: when an alarm() invocation returns, no stored job has a
\* runAtMs at or before the time its loop read in its last iteration.
C12_ExitMeansDrained ==
    [][ (apc = "final_set" /\ apc' = "idle" /\ ~retry') =>
            \A r \in Records(jobs') : r.runAtMs > aNowMs
      ]_vars

\* C12, amended: when alarm() leaves its loop, no stored job has a runAtMs
\* at or before the time read in the last iteration: the loop has gone on
\* to every due job, not only the first. From there to the return, a stored
\* job with such a runAtMs is one that /schedule has stored since.
C12_LoopExitMeansDrained ==
    [][ /\ (apc # "final_put" /\ apc' = "final_put") =>
              \A r \in Records(jobs') : r.runAtMs > aNowMs
        /\ apc \in {"final_put", "final_get", "final_set"} =>
              \A r \in Records(jobs') :
                  r.runAtMs <= aNowMs =>
                      \/ r \in Records(jobs)
                      \/ \E p \in Procs : /\ fpc[p] = "sched_post"
                                           /\ fpc'[p] = "sched_get"
                                           /\ floc'[p].j = r
      ]_vars

\* an invocation has returned after sending two jobs that were due together
C12_Witness ==
    /\ apc = "idle"
    /\ ~retry
    /\ Len(invSent) = 2
    /\ invSent[1].key[1] # invSent[2].key[1]
    /\ invSent[1].key[2] = invSent[2].key[2]

\* the occurrence is stored
Stored(id, ts) == \E r \in Records(jobs) : deliveryKey(r) = <<id, ts>>

\* C13 as stated: every stored occurrence (of a known kind, never
\* cancelled) eventually has an ok send, when the clock runs, the host
\* fires due alarms and retries, and sends answer ok in the end.
C13_EventuallyDelivered ==
    \A id \in 1 .. MaxLiveJobs : \A ts \in {HalfDaySec, DaySec} :
        Stored(id, ts) ~> (Count(sent, <<id, ts>>) >= 1)

\* the sum of a history counter
RECURSIVE SumOf(_, _)
SumOf(h, K) ==
    IF K = {} THEN 0
    ELSE LET k == CHOOSE x \in K : TRUE IN h[k] + SumOf(h, K \ {k})
Total(h) == SumOf(h, DOMAIN h)

\* C14: once alarm() has returned from delivering the only job ever
\* scheduled, a job that does not repeat, one send has been made in all,
\* to the job's channel, allowing a mention of the job's subject as a role
\* (ping-role), as a user (ping-user) or of nothing (channel-message);
\* "jobs" is empty and no alarm is pending.
C14_OneShotEndToEnd ==
    (nextId = 1 /\ 1 \in finished /\ apc = "idle") =>
        /\ jobs = <<>>
        /\ alarm = <<>>
        /\ ~retry
        /\ Total(sent) = 1
        /\ Len(invSent) = 1
        /\ sent[invSent[1].key] = 1
        /\ invSent[1].key = <<1, HalfDaySec>>
        /\ invSent[1].at >= HalfDaySec * MsPerSec
        /\ invSent[1].msg.channelId = "c"
        /\ invSent[1].job.doAtType = "ping-role" =>
              invSent[1].msg.allowed_mentions = [roles |-> <<"12345">>]
        /\ invSent[1].job.doAtType = "ping-user" =>
              invSent[1].msg.allowed_mentions = [users |-> <<"12345">>]
        /\ invSent[1].job.doAtType = "channel-message" =>
              /\ invSent[1].msg.allowed_mentions = [parse |-> <<>>]
              /\ invSent[1].msg.content = <<"12345">>

\* a ping-user job was delivered by an alarm() that ran after its time
C14_Witness ==
    /\ nextId = 1
    /\ 1 \in finished
    /\ apc = "idle"
    /\ Len(invSent) = 1
    /\ invSent[1].job.doAtType = "ping-user"
    /\ invSent[1].at > HalfDaySec * MsPerSec
    /\ jobs = <<>>

\* C15: a repeatDaily job due at T that alarm() has processed twice before
\* T + 2 days (at T and at T + 1 day, say) has had exactly two sends, one
\* for the occurrence of T and one for that of T + 86400; "jobs" holds one
\* record, of the same id, with scheduledUnix = T + 2 * 86400 and the alarm
\* set for it.
C15_RepeatEndToEnd ==
    (/\ nextId = 1
     /\ Total(handled) = 2
     /\ now < (HalfDaySec + 2 * DaySec) * MsPerSec
     /\ apc = "idle") =>
        /\ DOMAIN handled = {<<1, HalfDaySec>>, <<1, HalfDaySec + DaySec>>}
        /\ Total(sent) = 2
        /\ sent[<<1, HalfDaySec>>] = 1
        /\ sent[<<1, HalfDaySec + DaySec>>] = 1
        /\ Len(jobs) = 1
        /\ jobs[1].id = 1
        /\ jobs[1].scheduledUnix = HalfDaySec + 2 * DaySec
        /\ jobs[1].runAtMs = (HalfDaySec + 2 * DaySec) * MsPerSec
        /\ alarm = <<jobs[1].runAtMs>>

\* the second alarm() ran exactly one day after the first occurrence was due
C15_Witness ==
    /\ nextId = 1
    /\ DOMAIN handled = {<<1, HalfDaySec>>, <<1, HalfDaySec + DaySec>>}
    /\ apc = "idle"
    /\ Len(invSent) = 1
    /\ invSent[1].at = (HalfDaySec + DaySec) * MsPerSec
    /\ now = invSent[1].at

\* C16: when the job alarm() holds was removed by /cancel after the loop
\* read it, the removal transaction leaves "jobs" as it is, so the job is
\* not re-inserted, repeatDaily or not, and alarm() goes on to its next
\* iteration without failing.
C16_CancelledInFlightNotReinserted ==
    [][ (apc = "remove" /\ apc' # "remove" /\ aJob[1].id \in cancelled) =>
            /\ jobs' = jobs
            /\ aJob[1].id \notin IdSet(jobs')
            /\ handled' = handled
            /\ apc' = "loop"
            /\ ~retry'
      ]_vars

\* a repeatDaily job was cancelled after alarm() read it as due; it was
\* sent, its removal transaction found nothing, and alarm() has left its
\* loop with another job still stored
C16_Witness ==
    /\ Responded(2, "Cancelled job")
    /\ floc[2].removed.repeatDaily
    /\ Count(sent, deliveryKey(floc[2].removed)) = 1
    /\ Count(handled, deliveryKey(floc[2].removed)) = 0
    /\ apc = "final_put"
    /\ Len(jobs) = 1
    /\ floc[2].removed.id \notin IdSet(jobs)

\* C17 as stated: once the two racing operations have completed, the alarm
\* is the minimum runAtMs of the stored jobs (none when there are none): an
\* earlier-due wake is never left overwritten by a later-due one.
C17_AlarmIsMinAfterRace ==
    (\A p \in Procs : fpc[p] \in {"idle", "done"}) =>
        alarm = (IF jobs = <<>> THEN <<>> ELSE <<MinOf(RunAtSet(jobs))>>)

\* the key is older than the retention at nowMs
Expired(d, k, nowMs) == d[k][1] < nowMs - DELIVERED_TTL_MS

\* C18: when the loop ends without a failure, alarm() takes the keys older
\* than 14 days at that time out of its "delivered" map and stores the map;
\* when it returns the alarm is the earliest runAtMs of the stored jobs, or
\* none if no job is stored.
C18_ExitPrunesAndResyncs ==
    [][ /\ (apc = "loop" /\ apc' = "final_put") =>
              /\ DOMAIN aDelivered' = {k \in DOMAIN aDelivered : ~Expired(aDelivered, k, now)}
              /\ \A k \in DOMAIN aDelivered' : aDelivered'[k] = aDelivered[k]
        /\ (apc = "final_put" /\ apc' = "final_get") => delivered' = aDelivered
        /\ (apc = "final_set" /\ apc' = "idle") =>
              /\ alarm' = (IF jobs' = <<>> THEN <<>> ELSE <<MinOf(RunAtSet(jobs'))>>)
              /\ \A k \in DOMAIN delivered' : ~Expired(delivered', k, aNowMs)
              /\ ~retry'
      ]_vars

\* alarm() has returned half a day after it was due: the key that was
\* exactly 14 days old then is gone from "delivered", and the alarm is at
\* the earlier of the two jobs stored, which was re-inserted for the day after
C18_Witness ==
    /\ apc = "idle"
    /\ ~retry
    /\ now = LegacyNow + HalfDayMs
    /\ DOMAIN handled # {}
    /\ DOMAIN delivered \cap {<<0, 1>>, <<0, 2>>, <<0, 3>>} = {<<0, 3>>}
    /\ Len(jobs) = 2
    /\ jobs[1].runAtMs < jobs[2].runAtMs
    /\ alarm = <<jobs[1].runAtMs>>

\* C19 as stated: a due job whose doAtType is not one of the known kinds
\* never makes an invocation fail; it is purged without a send and without
\* a "delivered" entry and is not re-inserted; and an invocation that has
\* returned has left no due job behind.
C19_UnknownKindPurged ==
    /\ thrown = {}
    /\ \A k \in DOMAIN purged :
          /\ Count(sent, k) = 0
          /\ k \notin DOMAIN delivered
          /\ k[1] \notin IdSet(jobs)
    /\ (apc = "idle" /\ ~retry /\ alarm # <<>>) =>
          \A r \in Records(jobs) : r.runAtMs >= alarm[1]

\* C20: an occurrence that alarm() has removed or rescheduled stays
\* processed whatever happens later, a failed send for another occurrence
\* and the retried invocation included: it is never stored again, never
\* sent again and never removed or rescheduled a second time.
C20_ProcessedStaysProcessed ==
    [][ \A k \in DOMAIN handled :
            /\ k \notin KeysOf(jobs')
            /\ Count(sent', k) = Count(sent, k)
            /\ handled'[k] = 1
      ]_vars

\* two jobs due together: the first was processed, the send of the second
\* failed once, and the retried invocation has returned after sending and
\* removing the second only
C20_Witness ==
    /\ apc = "idle"
    /\ ~retry
    /\ faults = 1
    /\ skipped = <<>>
    /\ failed = (<<2, HalfDaySec>> :> 1)
    /\ sent = (<<1, HalfDaySec>> :> 1) @@ (<<2, HalfDaySec>> :> 1)
    /\ handled = (<<1, HalfDaySec>> :> 1) @@ (<<2, HalfDaySec>> :> 1)
    /\ Len(invSent) = 1
    /\ invSent[1].key = <<2, HalfDaySec>>

\* C21: a record leaves "jobs" (removed, or replaced by its next
\* occurrence) only when its key is in the stored "delivered" and it has
\* had an ok send, in this invocation or an earlier one; and an occurrence
\* whose key is stored is not sent again. So an abrupt stop never loses an
\* unsent job, and one after the put of "delivered" costs a skipped send.
C21_RemoveOnlyAfterMarked ==
    [][ /\ \A k \in KeysOf(jobs) \ KeysOf(jobs') :
              /\ apc = "remove"
              /\ k = deliveryKey(aJob[1])
              /\ k \in DOMAIN delivered
              /\ Count(sent, k) >= 1
        /\ \A k \in DOMAIN delivered : Count(sent', k) = Count(sent, k)
      ]_vars

\* a job that does not repeat was sent and marked, its invocation stopped
\* before the removal, and the retry skipped the send and removed it
C21_Witness ==
    /\ apc = "loop"
    /\ faults >= 1
    /\ \E k \in DOMAIN skipped :
          /\ Count(sent, k) = 1
          /\ Count(handled, k) = 1
          /\ Count(unmarked, k) = 0
          /\ k \in DOMAIN delivered
          /\ k[1] \in finished

----------------------------------------------------------------------------
\* what the claim calls a bad schedule command: the timestamp is not an
\* integer, or it is the current second or an earlier one, or the subject
\* fails the validator of the command
BadSchedule(i, nowMs) ==
    \/ i.timestamp.den = 0
    \/ i.timestamp.num % i.timestamp.den # 0
    \/ i.timestamp.num \div i.timestamp.den <= nowMs \div MsPerSec
    \/ validator(i.name, i.subject) # Null

CommandErrors ==
    {"Use this command inside a server.",
     "Only moderators or the server owner can use this command.",
     "Invalid role.", "Invalid user.", "Message cannot be empty.",
     "Message too long (max 2000 chars).",
     "timestamp must be an integer Unix timestamp in seconds.",
     "That timestamp is in the past."}

\* C22: a schedule command whose timestamp is not an integer, or whose
\* timestamp in seconds is not after the current time, or whose subject
\* fails its validator, is answered with an error message and does not
\* reach the scheduler: no job is created, and "jobs", "delivered" and the
\* alarm stay as they were
C22_BadCommandRejected ==
    [][ \A i \in Interactions, allowed \in BOOLEAN :
           BadSchedule(i, now) /\ RunSchedule(1, i, allowed)
           => /\ fpc'[1] = "done"
              /\ floc'[1].kind = "response"
              /\ floc'[1].content \in CommandErrors
              /\ jobs' = jobs
              /\ nextId' = nextId
              /\ delivered' = delivered
              /\ alarm' = alarm
      ]_vars

\* a command for the current second was answered "That timestamp is in the
\* past." on a tenant that holds a job and has its alarm set
C22_Witness ==
    /\ Responded(1, "That timestamp is in the past.")
    /\ now = HalfDayMs
    /\ Len(jobs) = 1
    /\ jobs[1].scheduledUnix = DaySec
    /\ alarm = <<DayMs>>

----------------------------------------------------------------------------
\* C23: a /schedule request whose doAtType is not "ping-role", "ping-user"
\* or "channel-message" is answered "Invalid target type." and changes
\* nothing: no job is stored, the alarm stays as it was, and so every job
\* stored through /schedule is of a known kind
C23_UnknownKindRejected ==
    [][ (/\ fpc[1] = "sched_post"
         /\ floc[1].body.doAtType \in LegacyTypes \cup InheritedNames
         /\ ScheduleTxn(1))
           => /\ fpc'[1] = "done"
              /\ floc'[1].kind = "response"
              /\ floc'[1].content = "Invalid target type."
              /\ jobs' = jobs
              /\ nextId' = nextId
              /\ alarm' = alarm
              /\ \A k \in DOMAIN jobs' : jobs'[k].doAtType \in KnownTypes
      ]_vars

----------------------------------------------------------------------------
\* the closure given the array `cur`, the held occurrence `job` and the time
\* t leaves in "jobs" every record that is not that occurrence, and writes
\* nothing when no record matches
ExactOccurrence(cur, job, t) ==
    /\ \A k \in DOMAIN cur :
          deliveryKey(cur[k]) # deliveryKey(job)
          => cur[k] \in Records(RemoveWrite(cur, job, t))
    /\ (deliveryKey(job) \notin KeysOf(cur)) => RemoveWrite(cur, job, t) = cur

\* C24: the removal transaction of alarm() takes out of "jobs" only the
\* occurrence it holds, matched by id and scheduledUnix: a record of the
\* same id at another scheduledUnix stays as it is, and so does every
\* record of another id; when no record matches, "jobs" is not written.
\* This holds of the closure on every array it can be given, and of every
\* removal step while /schedule and /cancel interleave with alarm()
C24_RemovesExactOccurrence ==
    /\ \A cur \in RemoveStores, job \in HeldJobs, t \in RemoveTimes :
          ExactOccurrence(cur, job, t)
    /\ [][ (apc = "remove" /\ apc' # "remove") =>
              /\ \A k \in DOMAIN jobs :
                    deliveryKey(jobs[k]) # deliveryKey(aJob[1])
                    => jobs[k] \in Records(jobs')
              /\ (deliveryKey(aJob[1]) \notin KeysOf(jobs)) => jobs' = jobs
        ]_vars

\* the removal transaction has run for an occurrence of a repeating job
\* while a /schedule that arrived during its send had stored another job:
\* the occurrence is replaced by the record of the same id a day later,
\* and the other record is still stored
C24_Witness ==
    /\ apc = "loop"
    /\ Len(jobs) = 2
    /\ \E k \in DOMAIN handled, r, o \in Records(jobs) :
          /\ handled[k] = 1
          /\ r.id = k[1]
          /\ r.scheduledUnix = k[2] + DaySec
          /\ o.id # k[1]
          /\ o.id \in raced

----------------------------------------------------------------------------
\* C25: every record stored in "jobs" has runAtMs = scheduledUnix * 1000:
\* /schedule stores it so, and every reschedule by alarm(), a catch-up over
\* several days included, keeps it so
C25_RunAtIsUnixTimes1000 ==
    \A k \in DOMAIN jobs : jobs[k].runAtMs = jobs[k].scheduledUnix * MsPerSec

\* the occurrence due at half a day was processed at two days, and the job
\* is stored again for two and a half days, one day having been skipped
C25_Witness ==
    /\ now = 2 * DayMs
    /\ DOMAIN handled = {<<1, HalfDaySec>>}
    /\ apc = "idle"
    /\ \E r \in Records(jobs) :
          r.id = 1 /\ r.scheduledUnix = HalfDaySec + 2 * DaySec

----------------------------------------------------------------------------
\* C26: "jobs" holds at most one record per job id, hence at most one per
\* occurrence; the reschedule of a repeatDaily job puts its next
\* occurrence in the place of the processed one, so no step of alarm()
\* makes "jobs" longer
C26_OneRecordPerId ==
    [][ /\ Cardinality(IdSet(jobs')) = Len(jobs')
        /\ Cardinality(KeysOf(jobs')) = Len(jobs')
        /\ apc # "idle" /\ fpc' = fpc => Len(jobs') <= Len(jobs)
        /\ Reschedules => Len(jobs') = Len(jobs) /\ IdSet(jobs') = IdSet(jobs)
      ]_vars

\* a repeatDaily job was processed and stored again next to a second job:
\* two records, two ids
C26_Witness ==
    /\ apc = "loop"
    /\ Len(jobs) = 2
    /\ \E k \in DOMAIN handled, r \in Records(jobs) :
          /\ r.id = k[1]
          /\ r.repeatDaily
          /\ r.scheduledUnix = k[2] + DaySec

----------------------------------------------------------------------------
\* C27: the record alarm() stores for the next occurrence of a repeatDaily
\* job differs from the record it took out in scheduledUnix and runAtMs
\* only: id, guildId, channelId, doAtType, doAtSubject, repeatDaily and
\* createdBy are the same, and scheduledUnix is strictly greater
C27_RescheduleFrame ==
    [][ Reschedules =>
          \E r \in Records(jobs') :
             /\ r.id = aJob[1].id
             /\ r.guildId = aJob[1].guildId
             /\ r.channelId = aJob[1].channelId
             /\ r.doAtType = aJob[1].doAtType
             /\ r.doAtSubject = aJob[1].doAtSubject
             /\ r.repeatDaily = aJob[1].repeatDaily
             /\ r.createdBy = aJob[1].createdBy
             /\ DOMAIN r = DOMAIN aJob[1]
             /\ r.scheduledUnix > aJob[1].scheduledUnix
      ]_vars

\* a repeating plain message was processed on time and is stored for the
\* next day, still a repeating plain message
C27_Witness ==
    /\ apc = "loop"
    /\ now = HalfDayMs
    /\ DOMAIN handled = {<<1, HalfDaySec>>}
    /\ \E r \in Records(jobs) :
          /\ r.id = 1
          /\ r.doAtType = "channel-message"
          /\ r.repeatDaily
          /\ r.scheduledUnix = HalfDaySec + DaySec

----------------------------------------------------------------------------
\* C28: a key enters the stored "delivered" only in the step that follows
\* an ok send of that occurrence, with the time of that send's answer as
\* its value;
\* a non-ok send, a skipped send and a purge add none, and no step of
\* /schedule, /cancel or /list changes "delivered"
C28_MarkedOnlyAfterOkSend ==
    [][ /\ \A k \in DOMAIN delivered' \ DOMAIN delivered :
              /\ apc = "mark"
              /\ k = deliveryKey(aJob[1])
              /\ invSent # <<>>
              /\ invSent[Len(invSent)].key = k
              /\ delivered'[k] = <<invSent[Len(invSent)].at>>
        /\ fpc' # fpc => delivered' = delivered
      ]_vars

\* one occurrence was sent and its key stored, the send of another was
\* answered non-ok and its key is not stored, a send was skipped after an
\* abrupt stop, and a request has been answered
C28_Witness ==
    /\ apc = "idle"
    /\ skipped # <<>>
    /\ \E k \in DOMAIN sent : k \in DOMAIN delivered /\ Count(failed, k) = 0
    /\ \E f \in DOMAIN failed : f \notin DOMAIN delivered /\ Count(sent, f) = 0
    /\ fpc[1] = "done"

----------------------------------------------------------------------------
FourteenDaysMs == 1209600000

\* what pruneDelivered(d, nowMs) is to leave of d, in the words of C29
PrunedAs(d, nowMs, res) ==
    /\ DOMAIN res \subseteq DOMAIN d
    /\ \A k \in DOMAIN d :
          /\ k \notin DOMAIN res
                <=> (~IsNumber(d[k]) \/ d[k][1] < nowMs - FourteenDaysMs)
          /\ k \in DOMAIN res => res[k] = d[k]
          /\ IsNumber(d[k]) /\ d[k][1] = nowMs - FourteenDaysMs => k \in DOMAIN res

\* C29: pruneDelivered(delivered, nowMs) deletes exactly the entries whose
\* value is less than nowMs - 1,209,600,000 or is not a number, and leaves
\* every other entry with its value; an entry exactly 14 days old stays.
\* alarm() prunes the object it has read, the object it is about to put
\* after a non-ok send and the object it is about to put at exit, each at the
\* time of the prune, and the put stores the object as pruned
C29_PruneExactly ==
    [][ /\ apc = "load" /\ apc' = "loop" => PrunedAs(delivered, now, aDelivered')
        /\ apc = "send" /\ apc' = "fail_put" => PrunedAs(aDelivered, now, aDelivered')
        /\ apc = "loop" /\ apc' = "final_put" => PrunedAs(aDelivered, now, aDelivered')
        /\ apc \in {"fail_put", "final_put"} /\ apc' \in {"fail_text", "final_get"}
              => delivered' = aDelivered
      ]_vars

\* alarm() has read and pruned an object holding an expired entry, an entry
\* exactly 14 days old and a value that is not a number: only the second
\* is left
C29_Witness ==
    /\ apc = "loop"
    /\ now = LegacyNow
    /\ delivered = [k \in {<<0, 1>>, <<0, 2>>, <<0, 3>>} |->
                      IF k[2] = 1 THEN <<LegacyNow - FourteenDaysMs - 1>>
                      ELSE IF k[2] = 2 THEN <<LegacyNow - FourteenDaysMs>>
                      ELSE <<>>]
    /\ aDelivered = [k \in {<<0, 2>>} |-> <<LegacyNow - FourteenDaysMs>>]

----------------------------------------------------------------------------
\* C30: /list changes neither "jobs", "delivered" nor the alarm; whatever
\* the stored order, it reports the number of stored jobs and shows the
\* jobs due earliest, at most 15 of them, in ascending order of runAtMs
C30_ListReadOnlySorted ==
    [][ (fpc[1] = "idle" /\ fpc'[1] = "done") =>
          /\ jobs' = jobs
          /\ delivered' = delivered
          /\ alarm' = alarm
          /\ floc'[1].kind = "response"
          /\ IF jobs = <<>>
             THEN floc'[1].content = "No scheduled jobs."
             ELSE /\ floc'[1].content = "Scheduled jobs"
                  /\ floc'[1].total = Len(jobs)
                  /\ Len(floc'[1].shown) = IF Len(jobs) < 15 THEN Len(jobs) ELSE 15
                  /\ \A a, b \in DOMAIN floc'[1].shown :
                        a < b => /\ floc'[1].shown[a].runAtMs <= floc'[1].shown[b].runAtMs
                                 /\ floc'[1].shown[a].id # floc'[1].shown[b].id
                  /\ \A a \in DOMAIN floc'[1].shown :
                        /\ floc'[1].shown[a] \in Records(jobs)
                        /\ \A r \in Records(jobs) \ Records(floc'[1].shown) :
                              floc'[1].shown[a].runAtMs <= r.runAtMs
      ]_vars

\* /list has answered on a tenant whose 17 jobs are stored latest first:
\* it reports 17 and shows 15, the earliest first
C30_Witness ==
    /\ Responded(1, "Scheduled jobs")
    /\ Len(jobs) = 17
    /\ jobs[1].runAtMs > jobs[2].runAtMs
    /\ floc[1].total = 17
    /\ Len(floc[1].shown) = 15
    /\ floc[1].shown[1] = jobs[17]

----------------------------------------------------------------------------
\* no request and no invocation of alarm() is under way
Quiet == apc = "idle" /\ \A p \in Procs : fpc[p] \in {"idle", "done"}

\* C31: no job is stranded: whenever no operation is in progress and "jobs"
\* is not empty, an alarm is set at a time not after the smallest runAtMs
\* of "jobs", or the host is to retry a failed invocation of alarm()
C31_NoJobStranded ==
    (Quiet /\ jobs # <<>>) =>
        \/ alarm # <<>> /\ alarm[1] <= MinOf(RunAtSet(jobs))
        \/ retry

----------------------------------------------------------------------------
\* C32: every invocation of alarm() ends. An iteration of its loop leaves
\* the loop, throws, or takes the occurrence it holds out of "jobs": the
\* job is removed, purged, or stored again with a runAtMs strictly greater
\* than the time the removal transaction has read, so the occurrence is not
\* met again, no occurrence is sent twice in one invocation, and the
\* invocation returns or throws
C32_AlarmTerminates ==
    /\ [][ /\ (apc \in {"remove", "purge"} /\ apc' = "loop") =>
                /\ deliveryKey(aJob[1]) \notin KeysOf(jobs')
                /\ \A r \in Records(jobs') :
                      r.id = aJob[1].id => r.runAtMs > (IF apc = "remove" THEN aTxnMs ELSE now)
           /\ \A i, j \in 1 .. Len(invSent') :
                 i < j => invSent'[i].key # invSent'[j].key
         ]_vars
    /\ (apc = "load" ~> apc = "idle")

\* an invocation has returned after it sent one job that does not repeat
\* and one that does, which is stored again for the next day
C32_Witness ==
    /\ apc = "idle"
    /\ ~retry
    /\ Len(invSent) = 2
    /\ ~invSent[1].job.repeatDaily
    /\ invSent[2].job.repeatDaily
    /\ Len(jobs) = 1
    /\ jobs[1].id = invSent[2].key[1]
    /\ jobs[1].runAtMs > now

----------------------------------------------------------------------------
\* no stored job has runAtMs <= now
NothingDue == \A r \in Records(jobs) : r.runAtMs > now

\* C33: a wake that finds no job due is harmless: as long as no job is due,
\* the steps of alarm() send nothing, leave "jobs" as it is and add no key
\* to "delivered", and the invocation returns with the alarm set to the
\* smallest runAtMs of "jobs", or with no alarm when "jobs" is empty
C33_EarlyWakeHarmless ==
    [][ (NothingDue /\ apc # "idle" /\ ~(apc' = "idle" /\ retry')) =>
          /\ apc' \in {"load", "loop", "final_put", "final_get", "final_set", "idle"}
          /\ jobs' = jobs
          /\ sent' = sent
          /\ failed' = failed
          /\ DOMAIN delivered' \subseteq DOMAIN delivered
          /\ apc' = "idle" =>
                alarm' = (IF jobs = <<>> THEN <<>> ELSE <<MinOf(RunAtSet(jobs))>>)
      ]_vars

\* an invocation stopped after it had sent a repeating job and stored it
\* for the next day; the retry found nothing due, sent nothing and has set
\* the alarm to the time of the stored job
C33_Witness ==
    /\ apc = "idle"
    /\ ~retry
    /\ faults = 1
    /\ invSent = <<>>
    /\ skipped = <<>>
    /\ failed = <<>>
    /\ Total(sent) = 1
    /\ Total(handled) = 1
    /\ Len(jobs) = 1
    /\ NothingDue
    /\ alarm = <<jobs[1].runAtMs>>

----------------------------------------------------------------------------
\* the array is in ascending order of runAtMs
Ascending(s) == \A a, b \in DOMAIN s : a < b => s[a].runAtMs <= s[b].runAtMs

\* C34: after every write of "jobs", by the transaction of /schedule, of
\* /cancel, of the purge or of the remove/reschedule of alarm(), the stored
\* array is in ascending order of runAtMs
C34_WritesKeepJobsSorted ==
    [][ jobs' # jobs => Ascending(jobs') ]_vars

\* a job scheduled after a repeating job was stored again for the next day
\* is due before it and stands before it in "jobs"
C34_Witness ==
    /\ Len(jobs) = 2
    /\ jobs[1].id > jobs[2].id
    /\ jobs[1].runAtMs < jobs[2].runAtMs
    /\ jobs[2].repeatDaily
    /\ Count(handled, <<jobs[2].id, jobs[2].scheduledUnix - DaySec>>) = 1
    /\ fpc[1] = "done"

====
